---- MODULE Spec2Model ----
(***************************************************************************)
(* Infera, the probabilistic universe simulator: the per-particle Extended *)
(* Kalman Filter, the particle system with its collision pass, the         *)
(* hierarchical aggregator, the equation-discovery buffer, the             *)
(* meta-learning agent and the App's tick driver and commands.             *)
(*                                                                         *)
(* Numbers.  The program computes in IEEE doubles.  The model computes in  *)
(* fixed point: an integer n stands for the real n / SCALE (SCALE = 10^4), *)
(* and every product and quotient is rounded down to that grid, as a       *)
(* double rounds every product to its own grid.  Matrices are tuples of    *)
(* rows, indexed from 1 where the source indexes from 0.                   *)
(*                                                                         *)
(* src/unnamed/part_005 (lib/particle.ts) holds an unresolved merge: the   *)
(* HEAD side, update(learningEnabled), is the one its only caller          *)
(* (part_004:139) uses, and is the one modelled.                           *)
(***************************************************************************)
EXTENDS Integers, Sequences, FiniteSets, TLC

\* ------------------------------------------------------------ fixed point

\* One unit of the number grid: 1.0 is 10000.
SCALE == 10000

Abs(a) == IF a < 0 THEN -a ELSE a

Max(a, b) == IF a > b THEN a ELSE b

Min(a, b) == IF a < b THEN a ELSE b

\* a * b rounded to the nearest grid point.  Both factors are split so that
\* no intermediate leaves the machine integers while the result fits them.
Mul(a, b) ==
  LET qa == a \div SCALE
      ra == a % SCALE
      qb == b \div SCALE
      rb == b % SCALE
  IN  IF a = 0 \/ b = 0 THEN 0
      ELSE IF b = SCALE THEN a
      ELSE IF a = SCALE THEN b
      ELSE qa * qb * SCALE + qa * rb + ra * qb
           + (ra * rb + SCALE \div 2) \div SCALE

\* k more decimal digits of a quotient with remainder r, by long division,
\* the last one rounded to nearest.
RECURSIVE LongDiv(_, _, _, _)
LongDiv(acc, r, d, k) ==
  IF k = 0 THEN acc + (IF 2 * r >= d THEN 1 ELSE 0)
  ELSE LongDiv(acc * 10 + (r * 10) \div d, (r * 10) % d, d, k - 1)

\* a / b rounded to the nearest grid point, b # 0 (the callers guard b = 0
\* where the code does).
Div(a, b) ==
  LET n == IF b < 0 THEN -a ELSE a
      d == Abs(b)
  IN  LongDiv(n \div d, n % d, d, 4)

\* Math.sqrt by bisection: the largest r in lo..hi with r * r <= n.
RECURSIVE Bisect(_, _, _)
Bisect(lo, hi, n) ==
  IF hi - lo <= 1 THEN lo
  ELSE LET mid == (lo + hi) \div 2
       IN  IF mid * mid <= n THEN Bisect(mid, hi, n) ELSE Bisect(lo, mid, n)

\* The square root of a sum of squares of grid numbers is the integer square
\* root of the integer sum, 0 <= n < 46340^2.
ISqrt(n) == Bisect(0, 46340, n)

\* ---------------------------------------------------------------- matrices

\* The tuple <<f[1], ..., f[n]>>: each entry is computed once, as the source
\* fills its arrays once.
RECURSIVE SeqOf(_, _)
SeqOf(f, n) == IF n = 0 THEN << >> ELSE Append(SeqOf(f, n - 1), f[n])

\* The rows-by-cols matrix with entries f[i][j].
MatrixOf(f, rows, cols) == SeqOf([i \in 1..rows |-> SeqOf(f[i], cols)], rows)

\* kalman-filter.ts matrixMultiply: result[i][j] += A[i][k] * B[k][j], k ascending.
RECURSIVE DotFrom(_, _, _, _)
DotFrom(row, B, j, k) ==
  IF k > Len(row) THEN 0
  ELSE Mul(row[k], B[k][j]) + DotFrom(row, B, j, k + 1)

matrixMultiply(A, B) ==
  MatrixOf([i \in 1..Len(A) |-> [j \in 1..Len(B[1]) |-> DotFrom(A[i], B, j, 1)]],
           Len(A), Len(B[1]))

matrixAdd(A, B) ==
  MatrixOf([i \in 1..Len(A) |-> [j \in 1..Len(A[i]) |-> A[i][j] + B[i][j]]],
           Len(A), Len(A[1]))

matrixSubtract(A, B) ==
  MatrixOf([i \in 1..Len(A) |-> [j \in 1..Len(A[i]) |-> A[i][j] - B[i][j]]],
           Len(A), Len(A[1]))

scalarMultiply(A, scalar) ==
  MatrixOf([i \in 1..Len(A) |-> [j \in 1..Len(A[i]) |-> Mul(A[i][j], scalar)]],
           Len(A), Len(A[1]))

transpose(A) ==
  MatrixOf([i \in 1..Len(A[1]) |-> [j \in 1..Len(A) |-> A[j][i]]],
           Len(A[1]), Len(A))

identity(n) ==
  MatrixOf([i \in 1..n |-> [j \in 1..n |-> IF i = j THEN SCALE ELSE 0]], n, n)

RECURSIVE VecDotFrom(_, _, _)
VecDotFrom(row, v, k) ==
  IF k > Len(row) THEN 0
  ELSE Mul(row[k], v[k]) + VecDotFrom(row, v, k + 1)

matrixVectorMultiply(A, v) ==
  SeqOf([i \in 1..Len(A) |-> VecDotFrom(A[i], v, 1)], Len(A))

determinant3x3(A) ==
    Mul(A[1][1], Mul(A[2][2], A[3][3]) - Mul(A[2][3], A[3][2]))
  - Mul(A[1][2], Mul(A[2][1], A[3][3]) - Mul(A[2][3], A[3][1]))
  + Mul(A[1][3], Mul(A[2][1], A[3][2]) - Mul(A[2][2], A[3][1]))

\* The rows and columns of A other than `row` and `col`, in order.
Skip(k, gone) == IF k < gone THEN k ELSE k + 1

getMinor(A, row, col, n) ==
  MatrixOf([i \in 1..(n - 1) |-> [j \in 1..(n - 1) |->
              A[Skip(i, row)][Skip(j, col)]]], n - 1, n - 1)

Mul3(a, b, c) == Mul(Mul(a, b), c)

determinant4x4(A) ==
    Mul(A[1][1],
          Mul3(A[2][2], A[3][3], A[4][4]) - Mul3(A[2][2], A[3][4], A[4][3])
        - Mul3(A[2][3], A[3][2], A[4][4]) + Mul3(A[2][3], A[3][4], A[4][2])
        + Mul3(A[2][4], A[3][2], A[4][3]) - Mul3(A[2][4], A[3][3], A[4][2]))
  - Mul(A[1][2],
          Mul3(A[2][1], A[3][3], A[4][4]) - Mul3(A[2][1], A[3][4], A[4][3])
        - Mul3(A[2][3], A[3][1], A[4][4]) + Mul3(A[2][3], A[3][4], A[4][1])
        + Mul3(A[2][4], A[3][1], A[4][3]) - Mul3(A[2][4], A[3][3], A[4][1]))
  + Mul(A[1][3],
          Mul3(A[2][1], A[3][2], A[4][4]) - Mul3(A[2][1], A[3][4], A[4][2])
        - Mul3(A[2][2], A[3][1], A[4][4]) + Mul3(A[2][2], A[3][4], A[4][1])
        + Mul3(A[2][4], A[3][1], A[4][2]) - Mul3(A[2][4], A[3][2], A[4][1]))
  - Mul(A[1][4],
          Mul3(A[2][1], A[3][2], A[4][3]) - Mul3(A[2][1], A[3][3], A[4][2])
        - Mul3(A[2][2], A[3][1], A[4][3]) + Mul3(A[2][2], A[3][3], A[4][1])
        + Mul3(A[2][3], A[3][1], A[4][2]) - Mul3(A[2][3], A[3][2], A[4][1]))

\* adj[j][i] = (-1)^(i+j) * det3(minor(A, i, j)).
adjugate4x4(A) ==
  MatrixOf([j \in 1..4 |-> [i \in 1..4 |->
              LET d == determinant3x3(getMinor(A, i, j, 4))
              IN  IF (i + j) % 2 = 0 THEN d ELSE -d]], 4, 4)

\* adj / det, entry by entry (line 260).
ScaledBy(adj, det) ==
  MatrixOf([i \in 1..4 |-> [j \in 1..4 |-> Div(adj[i][j], det)]], 4, 4)

\* The 4x4 inverse falling back, for a determinant of 0, to the adjugate as
\* it is.
InverseByAdjugate(A, det) ==
  IF det = 0 THEN adjugate4x4(A) ELSE ScaledBy(adjugate4x4(A), det)

\* The 4x4 inverse once its determinant is known: |det| < 1e-10 is det = 0 on
\* the grid, and gives the identity.
InverseBy(A, det) ==
  IF det = 0 THEN identity(4) ELSE ScaledBy(adjugate4x4(A), det)

\* inverse(A) giving the identity for every matrix, as it does for the
\* singular ones.
inverseSkipped(A) == identity(Len(A))

\* inverse(A): anything that is not 4x4 gives the identity.
inverse(A) ==
  IF Len(A) = 4 THEN InverseBy(A, determinant4x4(A)) ELSE identity(Len(A))

\* ------------------------------------------- kalman-filter.ts: the estimator

\* new ExtendedKalmanFilter(initialState, initialCovariance, dt).
NewFilter(initialState, initialCovariance, dt) ==
  [ state |-> initialState,
    dt    |-> dt,
    R     |-> 1000,
    P     |-> MatrixOf([i \in 1..7 |-> [j \in 1..7 |->
                 IF i # j THEN 0
                 ELSE IF i = 5 THEN 50000
                 ELSE IF i = 6 THEN 20000
                 ELSE IF i = 7 THEN 10000
                 ELSE initialCovariance]], 7, 7),
    Q     |-> MatrixOf([i \in 1..7 |-> [j \in 1..7 |->
                 IF i # j THEN 0 ELSE IF i <= 4 THEN 100 ELSE 1]], 7, 7) ]

computeJacobian(f) ==
  LET vx == f.state.vx
      vy == f.state.vy
      mu == f.state.mu
      dt == f.dt
      one == SCALE
  IN  << << one, 0, dt, 0, 0, 0, 0 >>,
         << 0, one, 0, dt, Mul(Mul(-5000, dt), dt), 0, 0 >>,
         << 0, 0, one - Mul(mu, dt), 0, 0, 0, -Mul(vx, dt) >>,
         << 0, 0, 0, one - Mul(mu, dt), -dt, 0, -Mul(vy, dt) >>,
         << 0, 0, 0, 0, one, 0, 0 >>,
         << 0, 0, 0, 0, 0, one, 0 >>,
         << 0, 0, 0, 0, 0, 0, one >> >>

computeObservationMatrix ==
  << << SCALE, 0, 0, 0, 0, 0, 0 >>,
     << 0, SCALE, 0, 0, 0, 0, 0 >>,
     << 0, 0, SCALE, 0, 0, 0, 0 >>,
     << 0, 0, 0, SCALE, 0, 0, 0 >> >>

\* The motion model of predict(), lines 77-85.
PredictedState(s, dt) ==
  [ px |-> s.px + Mul(s.vx, dt),
    py |-> s.py + Mul(s.vy, dt) - Mul(Mul(Mul(5000, s.g), dt), dt),
    vx |-> s.vx - Mul(Mul(s.mu, s.vx), dt),
    vy |-> s.vy - Mul(s.g, dt) - Mul(Mul(s.mu, s.vy), dt),
    g  |-> s.g,
    m  |-> s.m,
    mu |-> s.mu ]

\* predict(): the filter after the call.  The Jacobian is taken at the state
\* before the step (line 88 runs before line 97).
Propagated(F, P, Q) ==
  matrixAdd(matrixMultiply(matrixMultiply(F, P), transpose(F)), Q)

predict(f) ==
  [f EXCEPT !.P = Propagated(computeJacobian(f), f.P, f.Q),
            !.state = PredictedState(f.state, f.dt)]

\* The value passed on as it is, where Clamp cuts it to [lo, hi].
Unclamped(lo, hi, v) == v

\* Math.max(lo, Math.min(hi, v)).
Clamp(lo, hi, v) == Max(lo, Min(hi, v))

\* The fixed factor damping the correction of the unobserved constants.
paramLearningRate == 1000

\* The innovation covariance S = H * P * H^T + R of update(), lines 115-120.
InnovationCovariance(f) ==
  matrixAdd(
    matrixMultiply(matrixMultiply(computeObservationMatrix, f.P),
                   transpose(computeObservationMatrix)),
    scalarMultiply(identity(4), f.R))

\* The Kalman gain K = P * H^T * S^(-1) of update(), lines 115-128, with
\* S = H * P * H^T + R.
KalmanGain(f) ==
  matrixMultiply(
    matrixMultiply(f.P, transpose(computeObservationMatrix)),
    inverse(InnovationCovariance(f)))

\* The correction of update(), lines 130-157, from the gain K and the
\* innovation y: the state moves by K*y, the three constants by a tenth of it
\* and clamped, and P becomes (I - K*H)*P.
Corrected(f, K, y) ==
  LET Ky == matrixVectorMultiply(K, y)
  IN  [f EXCEPT
         !.state = [ px |-> f.state.px + Ky[1],
                     py |-> f.state.py + Ky[2],
                     vx |-> f.state.vx + Ky[3],
                     vy |-> f.state.vy + Ky[4],
                     g  |-> Clamp(0, 200000,
                                  f.state.g + Mul(Ky[5], paramLearningRate)),
                     m  |-> Clamp(1000, 100000,
                                  f.state.m + Mul(Ky[6], paramLearningRate)),
                     mu |-> Clamp(0, 20000,
                                  f.state.mu + Mul(Ky[7], paramLearningRate)) ],
         !.P = matrixMultiply(
                 matrixSubtract(identity(7),
                                matrixMultiply(K, computeObservationMatrix)),
                 f.P)]

\* update(observedPosition, observedVelocity): the filter after the call.
\* The innovation y = z - h(x) of lines 106-113 is taken at the predicted state.
update(f, observedPosition, observedVelocity) ==
  Corrected(f, KalmanGain(f),
            << observedPosition.x - f.state.px,
               observedPosition.y - f.state.py,
               observedVelocity.x - f.state.vx,
               observedVelocity.y - f.state.vy >>)

RECURSIVE TraceFrom(_, _)
TraceFrom(P, i) == IF i > 7 THEN 0 ELSE P[i][i] + TraceFrom(P, i + 1)

\* getVariance(): trace / 7.
getVariance(f) == TraceFrom(f.P, 1) \div 7

\* ------------------------------------------ collision.ts: CollisionSystem

\* collisionRadius 0.4, restitution 0.8, minImpactVelocity 0.5.
collisionRadius == 4000

restitution == 8000

minImpactVelocity == 5000

\* Math.sqrt(dx*dx + dy*dy + dz*dz).  A pair with one coordinate at least
\* 2 * collisionRadius apart is at least that far apart; the coordinate gap is
\* returned for it, which decides `distance < 2 * collisionRadius` the same way.
Distance(dx, dy, dz) ==
  LET far == Max(Abs(dx), Max(Abs(dy), Abs(dz)))
  IN  IF far >= 2 * collisionRadius THEN far
      ELSE ISqrt(dx * dx + dy * dy + dz * dz)

\* The event pushed for every resolved pair, whatever the impact.
PairEventAlways(q1, q2, impactStrength) ==
  [ p1 |-> q1, p2 |-> q2,
    events |->
      << [ particle1 |-> q1.id,
           particle2 |-> q2.id,
           position |->
             [x |-> (q1.position.x + q2.position.x) \div 2,
              y |-> (q1.position.y + q2.position.y) \div 2,
              z |-> (q1.position.z + q2.position.z) \div 2],
           velocity |->
             [x |-> (q1.velocity.x + q2.velocity.x) \div 2,
              y |-> (q1.velocity.y + q2.velocity.y) \div 2,
              z |-> (q1.velocity.z + q2.velocity.z) \div 2],
           impact |-> impactStrength ] >> ]

\* Lines 88-102: the two particles as resolved, and the event pushed when the
\* impact is above minImpactVelocity.
PairEvent(q1, q2, impactStrength) ==
  [ p1 |-> q1, p2 |-> q2,
    events |->
      IF impactStrength > minImpactVelocity
      THEN << [ particle1 |-> q1.id,
                particle2 |-> q2.id,
                position |->
                  [x |-> (q1.position.x + q2.position.x) \div 2,
                   y |-> (q1.position.y + q2.position.y) \div 2,
                   z |-> (q1.position.z + q2.position.z) \div 2],
                velocity |->
                  [x |-> (q1.velocity.x + q2.velocity.x) \div 2,
                   y |-> (q1.velocity.y + q2.velocity.y) \div 2,
                   z |-> (q1.velocity.z + q2.velocity.z) \div 2],
                impact |-> impactStrength ] >>
      ELSE << >> ]

\* The impulse i given to the second particle alone.
PairPushOneSided(p1, p2, i, s, impactStrength) ==
  PairEvent([p1 EXCEPT
               !.position = [x |-> p1.position.x - s.x,
                             y |-> p1.position.y - s.y,
                             z |-> p1.position.z - s.z]],
            [p2 EXCEPT
               !.velocity = [x |-> p2.velocity.x + i.x,
                             y |-> p2.velocity.y + i.y,
                             z |-> p2.velocity.z + i.z],
               !.position = [x |-> p2.position.x + s.x,
                             y |-> p2.position.y + s.y,
                             z |-> p2.position.z + s.z]],
            impactStrength)

\* Lines 56-86: the impulse i and the separation s, each half to either side.
PairPush(p1, p2, i, s, impactStrength) ==
  PairEvent([p1 EXCEPT
               !.velocity = [x |-> p1.velocity.x - i.x,
                             y |-> p1.velocity.y - i.y,
                             z |-> p1.velocity.z - i.z],
               !.position = [x |-> p1.position.x - s.x,
                             y |-> p1.position.y - s.y,
                             z |-> p1.position.z - s.z]],
            [p2 EXCEPT
               !.velocity = [x |-> p2.velocity.x + i.x,
                             y |-> p2.velocity.y + i.y,
                             z |-> p2.velocity.z + i.z],
               !.position = [x |-> p2.position.x + s.x,
                             y |-> p2.position.y + s.y,
                             z |-> p2.position.z + s.z]],
            impactStrength)

\* The pair loop leaving alone also a pair at rest relative to each other
\* along the normal n.
PairBounceResting(p1, p2, n, overlap, velAlongNormal) ==
  IF velAlongNormal >= 0
  THEN [p1 |-> p1, p2 |-> p2, events |-> << >>]
  ELSE PairPush(p1, p2,
         [x |-> Mul(Mul(Mul(-(SCALE + restitution), velAlongNormal), n.x), 5000),
          y |-> Mul(Mul(Mul(-(SCALE + restitution), velAlongNormal), n.y), 5000),
          z |-> Mul(Mul(Mul(-(SCALE + restitution), velAlongNormal), n.z), 5000)],
         [x |-> Mul(Mul(n.x, overlap), 5000),
          y |-> Mul(Mul(n.y, overlap), 5000),
          z |-> Mul(Mul(n.z, overlap), 5000)],
         Abs(velAlongNormal))

\* Lines 53-66 and 76-80: a pair moving apart along the normal n is left
\* alone; otherwise impulse = -(1 + restitution) * velAlongNormal.
PairBounce(p1, p2, n, overlap, velAlongNormal) ==
  IF velAlongNormal > 0
  THEN [p1 |-> p1, p2 |-> p2, events |-> << >>]
  ELSE PairPush(p1, p2,
         [x |-> Mul(Mul(Mul(-(SCALE + restitution), velAlongNormal), n.x), 5000),
          y |-> Mul(Mul(Mul(-(SCALE + restitution), velAlongNormal), n.y), 5000),
          z |-> Mul(Mul(Mul(-(SCALE + restitution), velAlongNormal), n.z), 5000)],
         [x |-> Mul(Mul(n.x, overlap), 5000),
          y |-> Mul(Mul(n.y, overlap), 5000),
          z |-> Mul(Mul(n.z, overlap), 5000)],
         Abs(velAlongNormal))

\* Lines 41-50: the relative velocity along the normal n.
PairAlong(p1, p2, n, overlap) ==
  PairBounce(p1, p2, n, overlap,
               Mul(p2.velocity.x - p1.velocity.x, n.x)
             + Mul(p2.velocity.y - p1.velocity.y, n.y)
             + Mul(p2.velocity.z - p1.velocity.z, n.z))

\* The pair test taking the normal without its signs, so that it points the
\* same way whichever of the two particles comes first.
PairAtUnsigned(p1, p2, d, distance) ==
  IF ~(distance < 2 * collisionRadius /\ distance > 100)
  THEN [p1 |-> p1, p2 |-> p2, events |-> << >>]
  ELSE PairAlong(p1, p2,
                 [x |-> Div(Abs(d.x), distance), y |-> Div(Abs(d.y), distance),
                  z |-> Div(Abs(d.z), distance)],
                 2 * collisionRadius - distance)

\* Lines 36-44: only a pair closer than 2 * collisionRadius and further than
\* 0.01 is looked at; d is p2.position - p1.position.
PairAt(p1, p2, d, distance) ==
  IF ~(distance < 2 * collisionRadius /\ distance > 100)
  THEN [p1 |-> p1, p2 |-> p2, events |-> << >>]
  ELSE PairAlong(p1, p2,
                 [x |-> Div(d.x, distance), y |-> Div(d.y, distance),
                  z |-> Div(d.z, distance)],
                 2 * collisionRadius - distance)

\* The body of the pair loop, lines 29-104, for the pair (p1, p2): the two
\* particles after it and the events it pushed.
ResolvePair(p1, p2) ==
  PairAt(p1, p2,
         [x |-> p2.position.x - p1.position.x,
          y |-> p2.position.y - p1.position.y,
          z |-> p2.position.z - p1.position.z],
         Distance(p2.position.x - p1.position.x,
                  p2.position.y - p1.position.y,
                  p2.position.z - p1.position.z))

\* The loops of checkParticleCollisions from the pair (i, j) on: i ascending,
\* j from i + 1, each pair reading what the earlier pairs wrote.
RECURSIVE PairLoop(_, _, _, _)
PairLoop(ps, i, j, events) ==
  IF i > Len(ps) THEN [particles |-> ps, events |-> events]
  ELSE IF j > Len(ps) THEN PairLoop(ps, i + 1, i + 2, events)
  ELSE LET r == ResolvePair(ps[i], ps[j])
       IN  PairLoop([ps EXCEPT ![i] = r.p1, ![j] = r.p2], i, j + 1,
                    events \o r.events)

checkParticleCollisions(ps) == PairLoop(ps, 1, 2, << >>)

\* checkBoundaryCollision(particle, bounds): << >> for null, else <<event>>.
checkBoundaryCollision(particle, bounds) ==
  LET pos == particle.position
      vel == particle.velocity
      hitX == \/ (pos.x <= bounds.min /\ vel.x < 0)
              \/ (pos.x >= bounds.max /\ vel.x > 0)
      hitY == \/ (pos.y <= bounds.min /\ vel.y < 0)
              \/ (pos.y >= bounds.max /\ vel.y > 0)
      hitZ == \/ (pos.z <= bounds.min /\ vel.z < 0)
              \/ (pos.z >= bounds.max /\ vel.z > 0)
      ix == IF hitX THEN Abs(vel.x) ELSE 0
      iy == IF hitY THEN Abs(vel.y) ELSE 0
      iz == IF hitZ THEN Abs(vel.z) ELSE 0
      collided == hitX \/ hitY \/ hitZ
      totalImpact == ISqrt(ix * ix + iy * iy + iz * iz)
  IN  IF collided /\ totalImpact > minImpactVelocity
      THEN << [ particle1 |-> particle.id,
                particle2 |-> "boundary",
                position |-> pos,
                velocity |-> vel,
                impact |-> totalImpact ] >>
      ELSE << >>

\* -------------------------------------------- particle.ts: ParticleSystem

\* dt = 0.016, trueGravity = 9.8, the true friction 0.1, the box, the bounce
\* damping 0.85 and the trail capacity 50.
DT == 160

trueGravity == 98000

trueFriction == 1000

bounds == [min |-> -50000, max |-> 50000]

damping == 8500

TrailMax == 50

\* createParticle(id, position, initialVelocity), with the three Math.random()
\* draws r.g, r.m, r.mu in [0, 1) it makes, in this order.
NewParticle(id, position, initialVelocity, r) ==
  LET initialGravity  == Clamp(0, 200000, 98000 + Mul(r.g - 5000, 100000))
      initialMass     == Clamp(1000, 100000, 10000 + Mul(r.m - 5000, 20000))
      initialFriction == Clamp(0, 20000, 1000 + Mul(r.mu - 5000, 5000))
      initialState == [ px |-> position.x, py |-> position.y,
                        vx |-> initialVelocity.x, vy |-> initialVelocity.y,
                        g |-> initialGravity, m |-> initialMass,
                        mu |-> initialFriction ]
      filter == NewFilter(initialState, 100000, DT)
  IN  [ id |-> id,
        position |-> position,
        velocity |-> initialVelocity,
        filter |-> filter,
        variance |-> getVariance(filter),
        trail |-> << >>,
        age |-> 0 ]

\* The index of the particle with this id in the map's insertion order, 0 if none.
RECURSIVE IndexOf(_, _, _)
IndexOf(ps, id, k) ==
  IF k > Len(ps) THEN 0
  ELSE IF ps[k].id = id THEN k ELSE IndexOf(ps, id, k + 1)

\* Map.set(id, particle): a new key goes last, an old key keeps its place.
MapSet(ps, particle) ==
  LET k == IndexOf(ps, particle.id, 1)
  IN  IF k = 0 THEN Append(ps, particle) ELSE [ps EXCEPT ![k] = particle]

\* applyPhysics(particle): the true next state, from the hidden true constants.
applyPhysics(particle) ==
  LET position == particle.position
      velocity == particle.velocity
      dt == DT
      g == trueGravity
      mu == trueFriction
  IN  [ px |-> position.x + Mul(velocity.x, dt),
        py |-> position.y + Mul(velocity.y, dt) - Mul(Mul(Mul(5000, g), dt), dt),
        vx |-> velocity.x - Mul(Mul(mu, velocity.x), dt),
        vy |-> velocity.y - Mul(g, dt) - Mul(Mul(mu, velocity.y), dt),
        g |-> trueGravity,
        m |-> 10000,
        mu |-> 1000 ]

\* Lines 140-154 (axis "x") and 156-170 (axis "y"): clamp, bounce, report.
BounceAxis(p, axis) ==
  LET pos == p.position[axis]
      vel == p.velocity[axis]
  IN  IF pos < bounds.min
      THEN LET c == [p EXCEPT !.position[axis] = bounds.min]
           IN  IF vel < 0
               THEN LET b == [c EXCEPT !.velocity[axis] = Mul(vel, -damping)]
                    IN  [p |-> b, events |-> checkBoundaryCollision(b, bounds),
                         bounced |-> TRUE]
               ELSE [p |-> c, events |-> << >>, bounced |-> FALSE]
      ELSE IF pos > bounds.max
      THEN LET c == [p EXCEPT !.position[axis] = bounds.max]
           IN  IF vel > 0
               THEN LET b == [c EXCEPT !.velocity[axis] = Mul(vel, -damping)]
                    IN  [p |-> b, events |-> checkBoundaryCollision(b, bounds),
                         bounced |-> TRUE]
               ELSE [p |-> c, events |-> << >>, bounced |-> FALSE]
      ELSE [p |-> p, events |-> << >>, bounced |-> FALSE]

\* The z axis bounced without being clamped.
BounceZFree(p) ==
  LET pos == p.position.z
      vel == p.velocity.z
  IN  IF pos < bounds.min
      THEN [p EXCEPT !.velocity.z = IF vel < 0 THEN Mul(vel, -damping) ELSE vel]
      ELSE IF pos > bounds.max
      THEN [p EXCEPT !.velocity.z = IF vel > 0 THEN Mul(vel, -damping) ELSE vel]
      ELSE p

\* Lines 172-182: the z axis is clamped and bounced, and never reported.
BounceZ(p) ==
  LET pos == p.position.z
      vel == p.velocity.z
  IN  IF pos < bounds.min
      THEN [p EXCEPT !.position.z = bounds.min,
                     !.velocity.z = IF vel < 0 THEN Mul(vel, -damping) ELSE vel]
      ELSE IF pos > bounds.max
      THEN [p EXCEPT !.position.z = bounds.max,
                     !.velocity.z = IF vel > 0 THEN Mul(vel, -damping) ELSE vel]
      ELSE p

\* trail.push(...) with no limit on the length.
PushTrailUnlimited(trail, entry) == Append(trail, entry)

\* The trail after the push of line 124 and the shift of line 133.
PushTrail(trail, entry) ==
  LET t == Append(trail, entry)
  IN  IF Len(t) > TrailMax THEN Tail(t) ELSE t

\* Lines 112-134: the filter's state and variance written into the particle,
\* its age advanced, and its new position pushed on the trail.
WriteBack(particle, f) ==
  [particle EXCEPT
     !.filter = f,
     !.position = [x |-> f.state.px, y |-> f.state.py,
                   z |-> particle.position.z],
     !.velocity = [x |-> f.state.vx, y |-> f.state.vy,
                   z |-> particle.velocity.z],
     !.variance = getVariance(f),
     !.age = particle.age + DT,
     !.trail = PushTrail(particle.trail,
                 [x |-> f.state.px, y |-> f.state.py,
                  z |-> particle.position.z, variance |-> getVariance(f)])]

\* Lines 136-182: the three axes in turn, x and y reporting their bounces.
Bounced(step, bx, by) ==
  [step EXCEPT
     !.particle = BounceZ(by.p),
     !.events = bx.events \o by.events,
     !.bounces = (IF bx.bounced THEN {"x"} ELSE {})
                 \cup (IF by.bounced THEN {"y"} ELSE {})]

BouncedX(step, bx) == Bounced(step, bx, BounceAxis(bx.p, "y"))

\* What one particle's step did: `calls` lists the estimator methods called,
\* `trueState` is what applyPhysics returned, `written` the particle as lines
\* 115-134 leave it, `bounces` the axes bounced.
Stepped(calls, trueState, written) ==
  BouncedX([ particle |-> written,
             events |-> << >>,
             calls |-> calls,
             trueState |-> trueState,
             written |-> written,
             bounces |-> {} ],
           BounceAxis(written, "x"))

\* The loop body with update() called whatever the flag says.
ObservedAlways(particle, learningEnabled, n, f, trueState) ==
  Stepped(IF learningEnabled THEN << "predict", "update" >> ELSE << "predict" >>,
    trueState,
    WriteBack(particle,
      update(f, [x |-> trueState.px + n.px, y |-> trueState.py + n.py],
                [x |-> trueState.vx + n.vx, y |-> trueState.vy + n.vy])))

\* Lines 96-110: the noisy observation of the true state, and the update
\* that only a tick with learning enabled makes; f is the filter as predict()
\* left it.
Observed(particle, learningEnabled, n, f, trueState) ==
  IF learningEnabled
  THEN Stepped(<< "predict", "update" >>, trueState,
         WriteBack(particle,
           update(f, [x |-> trueState.px + n.px, y |-> trueState.py + n.py],
                     [x |-> trueState.vx + n.vx, y |-> trueState.vy + n.vy])))
  ELSE Stepped(<< "predict" >>, trueState, WriteBack(particle, f))

\* The body of this.particles.forEach, lines 87-183, for one particle: n is
\* the four observation-noise terms of lines 96-101.
StepParticle(particle, learningEnabled, n) ==
  Observed(particle, learningEnabled, n,
           predict(particle.filter), applyPhysics(particle))

\* this.particles.forEach from the k-th particle on.
RECURSIVE ForEachParticle(_, _, _, _, _)
Gathered(acc, r) ==
  [acc EXCEPT !.particles = Append(acc.particles, r.particle),
              !.events = acc.events \o r.events,
              !.steps = Append(acc.steps, r)]

ForEachParticle(ps, k, learningEnabled, noise, acc) ==
  IF k > Len(ps) THEN acc
  ELSE ForEachParticle(ps, k + 1, learningEnabled, noise,
         Gathered(acc, StepParticle(ps[k], learningEnabled, noise[k])))

\* Lines 78-85 handed to the loop: events start as the collision pass left them.
AfterCollisions(hit, learningEnabled, noise) ==
  ForEachParticle(hit.particles, 1, learningEnabled, noise,
    [ particles |-> << >>, events |-> hit.events, steps |-> << >>,
      collided |-> hit.particles ])

\* ParticleSystem.update(learningEnabled): the particles after the tick, the
\* events returned, and what each particle's step did.
SystemUpdate(ps, learningEnabled, noise) ==
  AfterCollisions(checkParticleCollisions(ps), learningEnabled, noise)

\* --------------------- hierarchical-bayesian.ts: HierarchicalBayesianUniverse

\* sum / n for a count n (a plain integer, not a grid number), to nearest.
DivInt(sum, n) == (2 * sum + n) \div (2 * n)

\* The bits of log2(m) after the binary point, m in [SCALE, 2 * SCALE), by
\* repeated squaring; w is the weight of the next bit.
RECURSIVE Log2Frac(_, _)
Log2Frac(m, w) ==
  IF w = 0 THEN 0
  ELSE LET m2 == (m * m) \div SCALE
       IN  IF m2 >= 2 * SCALE THEN w + Log2Frac(m2 \div 2, w \div 2)
           ELSE Log2Frac(m2, w \div 2)

\* log2(x), x > 0: halve or double x into [SCALE, 2 * SCALE), counting.
RECURSIVE Log2(_)
Log2(x) ==
  IF x >= 2 * SCALE THEN SCALE + Log2(x \div 2)
  ELSE IF x < SCALE THEN Log2(2 * x) - SCALE
  ELSE Log2Frac(x, SCALE \div 2)

\* Math.log(x) = log2(x) * ln 2, x > 0.
Ln(x) == Mul(Log2(x), 6931)

\* calculateEntropy(variance) = 0.5 * ln(2 * pi * e * variance), 0 for variance <= 0
\* (and for a product below the grid, where the logarithm has no grid value).
calculateEntropy(variance) ==
  IF variance <= 0 THEN 0
  ELSE LET x == Mul(Mul(Mul(20000, 31416), 27183), variance)
       IN  IF x <= 0 THEN 0 ELSE Mul(5000, Ln(x))

RECURSIVE SumSeq(_)
SumSeq(q) == IF q = << >> THEN 0 ELSE Head(q) + SumSeq(Tail(q))

\* calculateVariance(samples): the population variance, 0 for no samples.
calculateVariance(samples) ==
  IF Len(samples) = 0 THEN 0
  ELSE LET mean == DivInt(SumSeq(samples), Len(samples))
           squaredDiffs == SeqOf([i \in 1..Len(samples) |->
                                    Mul(samples[i] - mean, samples[i] - mean)],
                                 Len(samples))
       IN  DivInt(SumSeq(squaredDiffs), Len(samples))

\* new HierarchicalBayesianUniverse().
NewUniverse ==
  [ globalPosterior |->
      [ gravity  |-> [ mean |-> 98000, variance |-> 250000, samples |-> << >>,
                       entropy |-> calculateEntropy(250000) ],
        mass     |-> [ mean |-> 10000, variance |-> 40000, samples |-> << >>,
                       entropy |-> calculateEntropy(40000) ],
        friction |-> [ mean |-> 1000, variance |-> 10000, samples |-> << >>,
                       entropy |-> calculateEntropy(10000) ],
        consensusStrength |-> 0,
        informationGain |-> 0 ],
    particleBeliefs |-> << >>,
    history |-> << >> ]

maxHistory == 1000

\* sample * weight in full: << whole units of SCALE, the rest >>, so that the
\* product of two grid numbers is kept to the last digit.
Product(sample, weight) ==
  << sample * (weight \div SCALE) + (sample * (weight % SCALE)) \div SCALE,
     (sample * (weight % SCALE)) % SCALE >>

\* samples.reduce((sum, val, i) => sum + val * weights[i], 0) from the k-th
\* sample on, in full.
RECURSIVE SumProducts(_, _, _)
SumProducts(samples, weights, k) ==
  IF k > Len(samples) THEN << 0, 0 >>
  ELSE << Product(samples[k], weights[k])[1]
            + SumProducts(samples, weights, k + 1)[1],
          Product(samples[k], weights[k])[2]
            + SumProducts(samples, weights, k + 1)[2] >>

\* k more decimal digits of a quotient with remainder r: the quotient and
\* what remains.
RECURSIVE LongQuot(_, _, _, _)
LongQuot(acc, r, d, k) ==
  IF k = 0 THEN << acc, r >>
  ELSE LongQuot(acc * 10 + (r * 10) \div d, (r * 10) % d, d, k - 1)

\* quotient + (remainder + rest) / weightSum, to nearest.
Rounded(qr, rest, weightSum) == qr[1] + DivInt(qr[2] + rest, weightSum)

\* sum / weightSum on the grid, the sum being in full: rounded once.
WeightedMean(sum, weightSum) ==
  Rounded(LongQuot(sum[1] \div weightSum, sum[1] % weightSum, weightSum, 4),
          sum[2], weightSum)

\* Lines 95-111 for one constant, with the weighted sum taken over one more
\* unit of weight than the particles bring.
WeightedShrunk(samples, weights, weightSum, betweenVariance) ==
  [ mean |-> WeightedMean(SumProducts(samples, weights, 1),
                          weightSum + SCALE),
    variance |-> Div(Len(samples) * SCALE, weightSum) + betweenVariance,
    samples |-> samples,
    entropy |-> calculateEntropy(Div(Len(samples) * SCALE, weightSum)
                                 + betweenVariance),
    between |-> betweenVariance ]

\* Lines 95-111 for one constant, from the inverse-variance weights: the
\* products of sample and weight are summed as they are and rounded once, by
\* the division.
Weighted(samples, weights, weightSum, betweenVariance) ==
  [ mean |-> WeightedMean(SumProducts(samples, weights, 1), weightSum),
    variance |-> Div(Len(samples) * SCALE, weightSum) + betweenVariance,
    samples |-> samples,
    entropy |-> calculateEntropy(Div(Len(samples) * SCALE, weightSum)
                                 + betweenVariance),
    between |-> betweenVariance ]

WeightedBy(samples, weights) ==
  Weighted(samples, weights, SumSeq(weights), calculateVariance(samples))

\* One constant's posterior from the belief samples and variances, lines
\* 93-111: weights 1 / (v + 0.01), the weighted mean, and the harmonic-mean
\* variance plus the between-particle variance.
PosteriorOf(samples, variances) ==
  WeightedBy(samples,
             SeqOf([i \in 1..Len(samples) |-> Div(SCALE, variances[i] + 100)],
                   Len(samples)))

\* The belief map taking every submission as a new entry.
SetBeliefAppend(beliefs, particleId, b) ==
  Append(beliefs, [id |-> particleId, belief |-> b])

\* Map.set on the belief map: a new id goes last, an old id keeps its place.
SetBelief(beliefs, particleId, b) ==
  LET k == IndexOf(beliefs, particleId, 1)
      e == [id |-> particleId, belief |-> b]
  IN  IF k = 0 THEN Append(beliefs, e) ELSE [beliefs EXCEPT ![k] = e]

Strip(post) ==
  [ mean |-> post.mean, variance |-> post.variance, samples |-> post.samples,
    entropy |-> post.entropy ]

\* Lines 153-157: the history takes a copy of the posterior, oldest dropped
\* beyond maxHistory.
Recorded(history, post) ==
  IF Len(history) + 1 > maxHistory THEN Tail(Append(history, post))
  ELSE Append(history, post)

Published(pb, history, post) ==
  [ globalPosterior |-> post,
    particleBeliefs |-> pb,
    history |-> Recorded(history, post) ]

\* old - new, whatever its sign.
EntropyChange(oldEntropy, newEntropy) == oldEntropy - newEntropy

\* Lines 148-150: Math.max(0, old entropy - new entropy).
EntropyDrop(oldEntropy, newEntropy) == Max(0, oldEntropy - newEntropy)

\* Lines 106-151 from the three posteriors: consensus is the mean of
\* 1 / (1 + between-particle variance), informationGain grows by the mean of
\* the entropy drops, none of them counted negative.
Combined(u, pb, gp, mp, mup) ==
  Published(pb, u.history,
    [ gravity |-> Strip(gp),
      mass |-> Strip(mp),
      friction |-> Strip(mup),
      consensusStrength |->
        DivInt(  Div(SCALE, SCALE + gp.between)
               + Div(SCALE, SCALE + mp.between)
               + Div(SCALE, SCALE + mup.between), 3),
      informationGain |->
        u.globalPosterior.informationGain
        + DivInt(  EntropyDrop(u.globalPosterior.gravity.entropy, gp.entropy)
                 + EntropyDrop(u.globalPosterior.mass.entropy, mp.entropy)
                 + EntropyDrop(u.globalPosterior.friction.entropy,
                               mup.entropy),
                 3) ])

\* Lines 72-87: the samples of every stored belief, in the map's order; each
\* constant is weighted by the same per-particle variance.
Collected(u, pb, variances) ==
  Combined(u, pb,
    PosteriorOf(SeqOf([i \in 1..Len(pb) |-> pb[i].belief.g], Len(pb)),
                variances),
    PosteriorOf(SeqOf([i \in 1..Len(pb) |-> pb[i].belief.m], Len(pb)),
                variances),
    PosteriorOf(SeqOf([i \in 1..Len(pb) |-> pb[i].belief.mu], Len(pb)),
                variances))

Stored(u, pb) ==
  Collected(u, pb,
            SeqOf([i \in 1..Len(pb) |-> pb[i].belief.variance], Len(pb)))

\* updateGlobalPosterior(particleId, beliefs): the universe after the call.
updateGlobalPosterior(u, particleId, b) ==
  Stored(u, SetBelief(u.particleBeliefs, particleId, b))

\* removeParticle(particleId): Map.delete on the belief map; the posterior
\* and the history stay as the last update left them.
removeParticle(u, particleId) ==
  [u EXCEPT !.particleBeliefs = SelectSeq(@, LAMBDA e : e.id # particleId)]

\* getGlobalPosterior(): a JSON copy, so a value.
getGlobalPosterior(u) == u.globalPosterior

\* Lines 188-197: 1 - |g1 - g2| / (|g1| + |g2| + 0.1) for every pair of stored
\* beliefs (i, j), i < j, in the map's order, from the pair (i, j) on.
RECURSIVE PairCorrelations(_, _, _)
PairCorrelations(beliefs, i, j) ==
  IF i >= Len(beliefs) THEN << >>
  ELSE IF j > Len(beliefs) THEN PairCorrelations(beliefs, i + 1, i + 2)
  ELSE << SCALE - Div(Abs(beliefs[i].belief.g - beliefs[j].belief.g),
                      Abs(beliefs[i].belief.g) + Abs(beliefs[j].belief.g)
                      + 1000) >>
       \o PairCorrelations(beliefs, i, j + 1)

\* The mean of the correlations, 0 for none.
MeanOf(correlations) ==
  IF Len(correlations) > 0
  THEN DivInt(SumSeq(correlations), Len(correlations))
  ELSE 0

\* calculateMutualInformation(): 0 below two beliefs.
calculateMutualInformation(u) ==
  IF Len(u.particleBeliefs) < 2 THEN 0
  ELSE MeanOf(PairCorrelations(u.particleBeliefs, 1, 2))

\* The history length below which getConvergenceMetrics reports nothing, and
\* the number of latest entries it looks at.
MinHistory == 10

RecentWindow == 20

\* history.slice(-RecentWindow).
Recent(history) ==
  SubSeq(history, Max(1, Len(history) - RecentWindow + 1), Len(history))

\* Lines 216-229 on the recent gravity variances and means.
ConvergenceOf(u, recentVariances, recentMeans, stability) ==
  [ converged |-> /\ u.globalPosterior.gravity.variance < 1000
                  /\ stability > 9000,
    convergenceRate |->
      Div(recentVariances[1] - recentVariances[Len(recentVariances)],
          recentVariances[1]),
    stability |-> stability ]

\* getConvergenceMetrics().
getConvergenceMetrics(u) ==
  IF Len(u.history) < MinHistory
  THEN [converged |-> FALSE, convergenceRate |-> 0, stability |-> 0]
  ELSE ConvergenceOf(u,
         SeqOf([i \in 1..Len(Recent(u.history)) |->
                  Recent(u.history)[i].gravity.variance],
               Len(Recent(u.history))),
         SeqOf([i \in 1..Len(Recent(u.history)) |->
                  Recent(u.history)[i].gravity.mean],
               Len(Recent(u.history))),
         Div(SCALE,
             SCALE + calculateVariance(
                       SeqOf([i \in 1..Len(Recent(u.history)) |->
                                Recent(u.history)[i].gravity.mean],
                             Len(Recent(u.history))))))

\* ------------------------------------ equation-discovery.ts: EquationDiscovery

maxObservations == 500

\* new EquationDiscovery(): the empty observation buffer.
NewDiscovery == << >>

\* addObservation(...) dropping, from a full buffer, the observation it was
\* just given.
addObservationNewestOut(observations, position, velocity, acceleration, time) ==
  IF Len(observations) + 1 > maxObservations THEN observations
  ELSE Append(observations,
              [ position |-> position, velocity |-> velocity,
                acceleration |-> acceleration, time |-> time ])

\* addObservation(position, velocity, acceleration, time).
addObservation(observations, position, velocity, acceleration, time) ==
  LET o == Append(observations,
                  [ position |-> position, velocity |-> velocity,
                    acceleration |-> acceleration, time |-> time ])
  IN  IF Len(o) > maxObservations THEN Tail(o) ELSE o

\* null, the no-result value of the three discover routines: a value of its
\* own, equal to no equation and to no metrics.
Null == [form |-> "null"]

\* The sample counts below which the routines return null.
MinGravitySamples == 10

MinVelocitySamples == 10

MinPositionSamples == 20

\* A fit that predicts no acceleration at all.
PredictedZero(discoveredG) == 0

\* Line 52: what the fitted equation y'' = -g predicts for every sample.
Predicted(discoveredG) == -discoveredG

\* The sum of the y accelerations of observations lo..hi, as the reduce of
\* line 48 takes it; the sum of whole numbers does not depend on the order of
\* the additions, and halving the range keeps the evaluation shallow.
RECURSIVE SumAccelerations(_, _, _)
SumAccelerations(observations, lo, hi) ==
  IF lo > hi THEN 0
  ELSE IF lo = hi THEN observations[lo].acceleration.y
  ELSE SumAccelerations(observations, lo, (lo + hi) \div 2)
       + SumAccelerations(observations, (lo + hi) \div 2 + 1, hi)

\* The sum of Math.pow(a - about, 2) over the y accelerations of observations
\* lo..hi, as the reduces of lines 51-58 take it.
RECURSIVE SumSquares(_, _, _, _)
SumSquares(observations, about, lo, hi) ==
  IF lo > hi THEN 0
  ELSE IF lo = hi
  THEN Mul(observations[lo].acceleration.y - about,
           observations[lo].acceleration.y - about)
  ELSE SumSquares(observations, about, lo, (lo + hi) \div 2)
       + SumSquares(observations, about, (lo + hi) \div 2 + 1, hi)

\* Line 59: 1 - ssRes / ssTot, 0 when the samples do not vary.
RSquared(ssRes, ssTot) == IF ssTot > 0 THEN SCALE - Div(ssRes, ssTot) ELSE 0

\* Lines 61-76: the equation returned for n observations; the confidence is
\* Math.min(1, rSquared * (n / 100)).
GravityEquation(n, discoveredG, rSquared) ==
  [ form |-> "y'' = -g",
    parameters |->
      << [ name |-> "g", value |-> discoveredG,
           confidence |-> Min(SCALE, Mul(rSquared, n * 100)) ] >>,
    rSquared |-> rSquared,
    complexity |-> 1 ]

\* Lines 49-59: discoveredG = -meanAccel and the two sums of squares.
GravityFrom(observations, meanAccel) ==
  GravityEquation(Len(observations), -meanAccel,
    RSquared(SumSquares(observations, Predicted(-meanAccel), 1,
                        Len(observations)),
             SumSquares(observations, meanAccel, 1, Len(observations))))

\* discoverGravityEquation(): null, or the equation fitted to the mean of the
\* y accelerations of the buffer.
discoverGravityEquation(observations) ==
  IF Len(observations) < MinGravitySamples THEN Null
  ELSE GravityFrom(observations,
         DivInt(SumAccelerations(observations, 1, Len(observations)),
                Len(observations)))

discoverVelocityEquation(observations) ==
  IF Len(observations) < MinVelocitySamples THEN Null ELSE [form |-> "v = v0 + at"]

\* discoverPositionEquation() answering from as few samples as the other two.
discoverPositionEarly(observations) ==
  IF Len(observations) < MinVelocitySamples THEN Null
  ELSE [form |-> "y = y0 + v0 t + 1/2 a t^2"]

\* discoverPositionEquation().
discoverPositionEquation(observations) ==
  IF Len(observations) < MinPositionSamples THEN Null
  ELSE [form |-> "y = y0 + v0 t + 1/2 a t^2"]

getAllDiscoveredEquations(observations) ==
  [ gravity |-> discoverGravityEquation(observations),
    velocity |-> discoverVelocityEquation(observations),
    position |-> discoverPositionEquation(observations) ]

\* ---------------------------------------- meta-learning.ts: MetaLearningAgent

\* new MetaLearningAgent().
NewMeta ==
  [ state |-> [ learningRate |-> 10000, processNoise |-> 100,
                measurementNoise |-> 1000, adaptationHistory |-> << >> ],
    performanceHistory |-> << >> ]

metaMaxHistory == 100

\* Lines 56-62 with neither the cap nor the floor.
TunedFreely(lr, avgPerformance) ==
  IF avgPerformance > 100 THEN Mul(lr, 10100)
  ELSE IF avgPerformance < -100 THEN Mul(lr, 9900)
  ELSE lr

\* Lines 56-62: the learning rate grows by 1% up to 2.0 when the average
\* performance is above 0.01 and shrinks by 1% down to 0.1 when it is below
\* -0.01.
Tuned(lr, avgPerformance) ==
  IF avgPerformance > 100 THEN Min(20000, Mul(lr, 10100))
  ELSE IF avgPerformance < -100 THEN Max(1000, Mul(lr, 9900))
  ELSE lr

\* adapt(currentVariance, previousVariance, timeStep): the agent after the call.
adapt(meta, currentVariance, previousVariance, timeStep) ==
  LET varianceReduction ==
        IF previousVariance > 0
        THEN Div(previousVariance - currentVariance, previousVariance)
        ELSE 0
      ph0 == Append(meta.performanceHistory, varianceReduction)
      ph == IF Len(ph0) > metaMaxHistory THEN Tail(ph0) ELSE ph0
      avgPerformance == IF Len(ph) > 0 THEN DivInt(SumSeq(ph), Len(ph)) ELSE 0
      lr == meta.state.learningRate
      learningRate == Tuned(lr, avgPerformance)
      ah0 == Append(meta.state.adaptationHistory,
                    [ time |-> timeStep, learningRate |-> learningRate,
                      performance |-> avgPerformance ])
  IN  [ state |->
          [ learningRate |-> learningRate,
            processNoise |-> 50 + Mul(currentVariance, 10),
            measurementNoise |-> Max(100, 1000 - Mul(avgPerformance, 5000)),
            adaptationHistory |->
              IF Len(ah0) > metaMaxHistory THEN Tail(ah0) ELSE ah0 ],
        performanceHistory |-> ph ]

\* ------------------------------------------------------------------- state

VARIABLES
  particles,       \* ParticleSystem.particles, in the Map's insertion order
  collisionEvents, \* ParticleSystem.collisionEvents
  returned,        \* the array a caller holds from getParticles(): references
                   \* to Particle objects, each named by its id
  twin,            \* the particles of a second ParticleSystem, run beside the
                   \* first on the same inputs
  universe,        \* hierarchicalBayesianRef.current
  observations,    \* equationDiscoveryRef.current's buffer
  meta,            \* metaLearningRef.current
  timeStep,        \* timeStepRef.current
  learningEnabled, \* the App's learningEnabled state
  animateLearning, \* learningEnabled as the animate closure holds it
  timers,          \* the pending setTimeout callbacks of handlePresetSelect
  published,       \* what the App last handed to its panels
  writes,          \* how many writes a caller made into returned particles
  nextId,          \* how many particles were ever created
  ticks,           \* how many ticks ran
  presets,         \* how many presets were selected
  last             \* the last operation: its inputs and what it did

vars == << particles, collisionEvents, returned, twin, universe, observations,
           meta, timeStep, learningEnabled, animateLearning, timers, published,
           writes, nextId, ticks, presets, last >>

appVars == << universe, observations, meta, timeStep, learningEnabled,
              animateLearning, timers, published, presets >>

\* ------------------------------------------------------------------ bounds

MaxParticles == 2

MaxTicks == 2

MaxPresets == 1

\* How many times a caller writes into a particle it was handed.
MaxWrites == 1

\* How many particles each of two systems run side by side holds.
MaxTwins == 1

\* The ids the callers hand out, in order of creation.
IdOf(k) == "p" \o << "1", "2", "3", "4", "5", "6", "7", "8", "9" >>[k]

\* Math.random() draws for createParticle's three beliefs: the low end, the
\* middle and the high end of [0, 1).
DrawLow == [g |-> 0, m |-> 0, mu |-> 0]

DrawMid == [g |-> 5000, m |-> 5000, mu |-> 5000]

DrawHigh == [g |-> 9999, m |-> 9999, mu |-> 9999]

Draws == { DrawLow, DrawMid, DrawHigh }

Vec(x, y, z) == [x |-> x, y |-> y, z |-> z]

\* What createParticle's callers pass, with the draws it then makes: a pair
\* 0.3 apart closing at speed 1 each, a particle outside the box on x moving
\* outwards, one a hair outside moving slowly, one outside on x and y at once,
\* and one outside on y alone.
Scenes ==
  { [position |-> Vec(0, 0, 0), velocity |-> Vec(10000, 0, 0), r |-> DrawMid],
    [position |-> Vec(3000, 0, 0), velocity |-> Vec(-10000, 0, 0),
     r |-> DrawLow],
    [position |-> Vec(51000, 0, 0), velocity |-> Vec(10000, 0, 0),
     r |-> DrawHigh],
    [position |-> Vec(50001, 0, 0), velocity |-> Vec(100, 0, 0), r |-> DrawMid],
    [position |-> Vec(-51000, -51000, 0), velocity |-> Vec(-10000, -10000, 0),
     r |-> DrawLow],
    [position |-> Vec(0, -52000, 0), velocity |-> Vec(0, -10000, 0),
     r |-> DrawHigh] }

\* (Math.random() - 0.5) * 0.01 for the four observation-noise terms of one
\* particle: all at the low end, or all at the high end.
NoiseOf(v) == [px |-> v, py |-> v, vx |-> v, vy |-> v]

Noises == { NoiseOf(-50), NoiseOf(49) }

\* ------------------------------------------------------------ the last call

Brief(p) ==
  [ id |-> p.id, position |-> p.position, velocity |-> p.velocity,
    trail |-> p.trail,
    g |-> p.filter.state.g, m |-> p.filter.state.m, mu |-> p.filter.state.mu ]

Briefs(ps) == SeqOf([i \in 1..Len(ps) |-> Brief(ps[i])], Len(ps))

\* What one particle's step of a tick did, for the record of the last call.
StepBrief(r) ==
  [ id |-> r.particle.id,
    calls |-> r.calls,
    trueState |-> r.trueState,
    written |-> [position |-> r.written.position,
                 velocity |-> r.written.velocity],
    bounces |-> r.bounces ]

StepBriefs(steps) ==
  SeqOf([i \in 1..Len(steps) |-> StepBrief(steps[i])], Len(steps))

NoCall == [ op |-> "init", le |-> FALSE, pre |-> << >>, steps |-> << >>,
            twinSteps |-> << >>, log |-> << >>, readAt |-> 0,
            args |-> << >>, old |-> << >>,
            had |-> [beliefs |-> 0, observations |-> 0] ]

\* --------------------------------------------------------------------- Init

Init ==
  /\ particles = << >>
  /\ collisionEvents = << >>
  /\ returned = << >>
  /\ writes = 0
  /\ twin = << >>
  /\ universe = NewUniverse
  /\ observations = NewDiscovery
  /\ meta = NewMeta
  /\ timeStep = 0
  /\ learningEnabled = TRUE
  /\ animateLearning = TRUE
  /\ timers = {}
  /\ published = [ globalPosterior |-> Null, discoveredEquations |-> Null,
                   mutualInformation |-> Null, convergenceMetrics |-> Null ]
  /\ nextId = 0
  /\ ticks = 0
  /\ presets = 0
  /\ last = NoCall

\* ----------------------------------------- the ParticleSystem, called directly

\* particleSystem.createParticle(id, position, initialVelocity).
CreateParticle ==
  /\ nextId < MaxParticles
  /\ \E sc \in Scenes :
       particles' = MapSet(particles,
                      NewParticle(IdOf(nextId + 1), sc.position, sc.velocity,
                                  sc.r))
  /\ nextId' = nextId + 1
  /\ last' = [NoCall EXCEPT !.op = "create"]
  /\ UNCHANGED << collisionEvents, returned, writes, twin, ticks >>
  /\ UNCHANGED appVars

\* particleSystem.update(learningEnabled), every particle drawing its noise.
Update ==
  /\ ticks < MaxTicks
  /\ particles # << >>
  /\ \E le \in BOOLEAN, n \in Noises :
       \E r \in { SystemUpdate(particles, le,
                                [i \in 1..Len(particles) |-> n]) } :
           /\ particles' = r.particles
           /\ collisionEvents' = r.events
           /\ last' = [NoCall EXCEPT !.op = "update", !.le = le,
                                     !.pre = Briefs(particles),
                                     !.steps = StepBriefs(r.steps)]
  /\ ticks' = ticks + 1
  /\ UNCHANGED << returned, writes, twin, nextId >>
  /\ UNCHANGED appVars

\* particleSystem.clear().
Clear ==
  /\ particles # << >>
  /\ particles' = << >>
  /\ last' = [NoCall EXCEPT !.op = "clear", !.pre = Briefs(particles)]
  /\ UNCHANGED << collisionEvents, returned, writes, twin, nextId, ticks >>
  /\ UNCHANGED appVars

Next == CreateParticle \/ Update \/ Clear

Spec == Init /\ [][Next]_vars

\* ------------------------------------------------- claims on ParticleSystem

\* The constants a particle believes: its estimator's g, m and mu.
InClampRange(st) ==
  /\ 0 <= st.g /\ st.g <= 200000
  /\ 1000 <= st.m /\ st.m <= 100000
  /\ 0 <= st.mu /\ st.mu <= 20000

\* C1: in every reachable state every particle's believed constants lie in
\* their clamp ranges: g in [0, 20], m in [0.1, 10], mu in [0, 2].
C1_ClampInvariant ==
  \A i \in 1..Len(particles) : InClampRange(particles[i].filter.state)

\* C1's case: a tick with learning enabled has corrected a particle that was
\* created with a draw the clamp had to cut (m at 0.1, mu at 0).
C1_Witness ==
  /\ last.op = "update" /\ last.le
  /\ \E i \in 1..Len(particles) :
       /\ last.pre[i].m = 1000 /\ last.pre[i].mu = 0
       /\ particles[i].filter.state.g # last.pre[i].g

\* C4: a tick with learning disabled calls predict() only on every particle
\* and leaves its believed g, m and mu as they were; a tick with learning
\* enabled calls predict() then update(), once each, on every particle.
C4_LearningGate ==
  last.op = "update" =>
    /\ Len(last.steps) = Len(last.pre)
    /\ \A i \in 1..Len(last.steps) :
         /\ last.steps[i].id = last.pre[i].id
         /\ last.le => last.steps[i].calls = << "predict", "update" >>
         /\ ~last.le =>
              /\ last.steps[i].calls = << "predict" >>
              /\ particles[i].filter.state.g = last.pre[i].g
              /\ particles[i].filter.state.m = last.pre[i].m
              /\ particles[i].filter.state.mu = last.pre[i].mu

\* C4's case: a tick with learning disabled has run on two particles.
C4_Witness ==
  /\ last.op = "update" /\ ~last.le
  /\ Len(last.steps) = 2
  /\ \A i \in 1..2 : last.steps[i].calls = << "predict" >>

\* The unit normal from a to b at their positions, as line 44-46 takes it.
NormalOf(a, b) ==
  [ x |-> Div(b.position.x - a.position.x,
              Distance(b.position.x - a.position.x, b.position.y - a.position.y,
                       b.position.z - a.position.z)),
    y |-> Div(b.position.y - a.position.y,
              Distance(b.position.x - a.position.x, b.position.y - a.position.y,
                       b.position.z - a.position.z)),
    z |-> Div(b.position.z - a.position.z,
              Distance(b.position.x - a.position.x, b.position.y - a.position.y,
                       b.position.z - a.position.z)) ]

\* The velocity of b relative to a along the normal n.
AlongNormal(a, b, n) ==
    Mul(b.velocity.x - a.velocity.x, n.x)
  + Mul(b.velocity.y - a.velocity.y, n.y)
  + Mul(b.velocity.z - a.velocity.z, n.z)

\* Two particles closer than 2 * 0.4 and further than 0.01 that approach
\* each other along the connecting normal.
ApproachingPair(a, b) ==
  /\ Distance(b.position.x - a.position.x, b.position.y - a.position.y,
              b.position.z - a.position.z) < 2 * collisionRadius
  /\ Distance(b.position.x - a.position.x, b.position.y - a.position.y,
              b.position.z - a.position.z) > 100
  /\ AlongNormal(a, b, NormalOf(a, b)) < 0

\* C5: two particles that start a tick closer than 2 * 0.4 (and further than
\* 0.01) and approaching along the connecting normal are, after that one
\* tick, separating along that normal, with learning enabled or disabled.
C5_PairSeparates ==
  last.op = "update" =>
    \A i, j \in 1..Len(last.pre) :
      (i < j /\ ApproachingPair(last.pre[i], last.pre[j])) =>
        AlongNormal(particles[i], particles[j],
                    NormalOf(last.pre[i], last.pre[j])) > 0

\* C6: a particle that starts a tick with position.x above bounds.max and a
\* positive x-velocity ends the tick with position.x = bounds.max and with
\* velocity.x negative, 0.85 of the speed it had before the flip.
C6_ClampAndFlip ==
  last.op = "update" =>
    \A i \in 1..Len(last.pre) :
      (last.pre[i].position.x > bounds.max /\ last.pre[i].velocity.x > 0) =>
        /\ particles[i].position.x = bounds.max
        /\ particles[i].velocity.x < 0
        /\ particles[i].velocity.x
             = Mul(last.steps[i].written.velocity.x, -damping)

\* C7: when a tick bounces a particle on the x or y axis and the particle's
\* speed on that axis is above 0.5 (both as it arrives and as it leaves), the
\* events the tick returns hold one for that particle against 'boundary'.
C7_BounceReported ==
  last.op = "update" =>
    \A i \in 1..Len(last.steps) : \A axis \in last.steps[i].bounces :
      (/\ Abs(last.steps[i].written.velocity[axis]) > minImpactVelocity
       /\ Abs(particles[i].velocity[axis]) > minImpactVelocity) =>
        \E k \in 1..Len(collisionEvents) :
          /\ collisionEvents[k].particle1 = last.steps[i].id
          /\ collisionEvents[k].particle2 = "boundary"

\* ------------------------------------- two ParticleSystems on the same inputs

\* createParticle on both systems with the same id, position and velocity;
\* the second system's three belief draws are its own.
TwinCreate ==
  /\ nextId < MaxTwins
  /\ \E sc \in Scenes, r \in Draws :
       /\ particles' = MapSet(particles,
                         NewParticle(IdOf(nextId + 1), sc.position,
                                     sc.velocity, sc.r))
       /\ twin' = MapSet(twin,
                    NewParticle(IdOf(nextId + 1), sc.position, sc.velocity, r))
  /\ nextId' = nextId + 1
  /\ last' = [NoCall EXCEPT !.op = "create"]
  /\ UNCHANGED << collisionEvents, returned, writes, ticks >>
  /\ UNCHANGED appVars

\* update(learningEnabled) on both systems, with the same flag and the same
\* observation-noise draws.
TwinUpdate ==
  /\ ticks < MaxTicks
  /\ particles # << >>
  /\ \E le \in BOOLEAN, n \in Noises :
       \E r \in { SystemUpdate(particles, le,
                                [i \in 1..Len(particles) |-> n]) },
          t \in { SystemUpdate(twin, le, [i \in 1..Len(twin) |-> n]) } :
           /\ particles' = r.particles
           /\ twin' = t.particles
           /\ collisionEvents' = r.events
           /\ last' = [NoCall EXCEPT !.op = "update", !.le = le,
                                     !.pre = Briefs(particles),
                                     !.steps = StepBriefs(r.steps),
                                     !.twinSteps = StepBriefs(t.steps)]
  /\ ticks' = ticks + 1
  /\ UNCHANGED << returned, writes, nextId >>
  /\ UNCHANGED appVars

TwinNext == TwinCreate \/ TwinUpdate

TwinSpec == Init /\ [][TwinNext]_vars

\* C2: two runs from the same positions, velocities and observation noise,
\* with different believed g, m and mu, hand their estimators the same true
\* states: at every tick applyPhysics returns the same in both.
C2_TrueStateIndependent ==
  last.op = "update" =>
    \A i \in 1..Len(last.steps) :
      last.steps[i].trueState = last.twinSteps[i].trueState

\* ------------------------------------------- a caller of the query surface

\* getParticles(): a new array of the Map's values, that is of the Particle
\* objects themselves.  `returned` names the objects the caller holds.
getParticles(ps) == SeqOf([i \in 1..Len(ps) |-> ps[i].id], Len(ps))

\* What a caller may write into a particle it holds.
Mutations ==
  { [field |-> "position", value |-> Vec(10000, 10000, 10000)],
    [field |-> "velocity", value |-> Vec(-20000, 0, 0)],
    [field |-> "trail",
     value |-> << [x |-> 0, y |-> 0, z |-> 0, variance |-> 0] >>] }

\* The object `id` names with one field overwritten: the Map holds the same
\* object, so it reads the new value.
WriteField(ps, id, mu) ==
  [ps EXCEPT ![IndexOf(ps, id, 1)] =
     [field \in DOMAIN @ |-> IF field = mu.field THEN mu.value ELSE @[field]]]

\* const list = particleSystem.getParticles().
GetParticles ==
  /\ writes < MaxWrites
  /\ particles # << >>
  /\ returned = << >>
  /\ returned' = getParticles(particles)
  /\ last' = [NoCall EXCEPT !.op = "get", !.pre = Briefs(particles)]
  /\ UNCHANGED << particles, collisionEvents, writes, twin, nextId, ticks >>
  /\ UNCHANGED appVars

\* list[k].position = ..., list[k].velocity = ... or list[k].trail = ...,
\* after which the caller lets go of the list.
MutateReturned ==
  /\ returned # << >>
  /\ \E k \in 1..Len(returned), mu \in Mutations :
       particles' = WriteField(particles, returned[k], mu)
  /\ returned' = << >>
  /\ writes' = writes + 1
  /\ last' = [NoCall EXCEPT !.op = "mutate", !.pre = Briefs(particles)]
  /\ UNCHANGED << collisionEvents, twin, nextId, ticks >>
  /\ UNCHANGED appVars

AliasNext == CreateParticle \/ GetParticles \/ MutateReturned

AliasSpec == Init /\ [][AliasNext]_vars

\* C8: getParticles returns a deep copy: writing the position, velocity or
\* trail of a returned particle leaves the particles the system holds, which
\* are what its later ticks advance, as they were.
C8_DeepCopy ==
  last.op = "mutate" => Briefs(particles) = last.pre

\* ------------------------------------------------------- App.tsx: the App

\* What handleSpawnParticle draws: position (r - 0.5) * 4 on x and y and
\* (r - 0.5) * 2 on z, velocity (r - 0.5) * 2 on x and y and 0 on z, and the
\* three belief draws of createParticle.
AppScenes ==
  { [position |-> Vec(0, 0, 0), velocity |-> Vec(9000, 0, 0), r |-> DrawMid],
    [position |-> Vec(3000, 0, 0), velocity |-> Vec(-9000, 0, 0),
     r |-> DrawLow] }

\* Lines 164-186: the observation animate derives from the last entries of a
\* trail of at least two: a finite-difference velocity and acceleration.
TrailVelocity(trail, k) ==
  IF k < 2 THEN [x |-> 0, y |-> 0]
  ELSE [ x |-> Div(trail[k].x - trail[k - 1].x, DT),
         y |-> Div(trail[k].y - trail[k - 1].y, DT) ]

TrailObservation(buffer, trail, time) ==
  addObservation(buffer,
    [x |-> trail[Len(trail)].x, y |-> trail[Len(trail)].y],
    TrailVelocity(trail, Len(trail)),
    [ x |-> Div(TrailVelocity(trail, Len(trail)).x
                - TrailVelocity(trail, Len(trail) - 1).x, DT),
      y |-> Div(TrailVelocity(trail, Len(trail)).y
                - TrailVelocity(trail, Len(trail) - 1).y, DT) ],
    time)

\* Lines 189-193: the variance one tick back, or this tick's for a trail of one.
PreviousVariance(particle, variance) ==
  IF Len(particle.trail) > 1
  THEN particle.trail[Len(particle.trail) - 1].variance
  ELSE variance

\* The body of updatedParticles.forEach, lines 150-194, for one particle: the
\* belief goes to the aggregator, then a trail of two or more gives discovery
\* an observation, then the meta-learner adapts.  `log` lists the calls made.
Visit(acc, particle, time) ==
  [ universe |->
      updateGlobalPosterior(acc.universe, particle.id,
        [ g |-> particle.filter.state.g, m |-> particle.filter.state.m,
          mu |-> particle.filter.state.mu,
          variance |-> getVariance(particle.filter) ]),
    observations |->
      IF Len(particle.trail) >= 2
      THEN TrailObservation(acc.observations, particle.trail, time)
      ELSE acc.observations,
    meta |->
      adapt(acc.meta, getVariance(particle.filter),
            PreviousVariance(particle, getVariance(particle.filter)), time),
    log |->
      acc.log
      \o << [phase |-> "aggregator", id |-> particle.id] >>
      \o (IF Len(particle.trail) >= 2
          THEN << [phase |-> "discovery", id |-> particle.id] >>
          ELSE << >>)
      \o << [phase |-> "meta", id |-> particle.id] >> ]

\* One phase of Visit alone, for every particle from the k-th on.
RECURSIVE PhaseLoop(_, _, _, _, _)
PhaseLoop(ps, k, time, acc, phase) ==
  IF k > Len(ps) THEN acc
  ELSE PhaseLoop(ps, k + 1, time,
         IF phase = "aggregator"
         THEN [acc EXCEPT
                 !.universe = Visit(acc, ps[k], time).universe,
                 !.log = Append(@, [phase |-> phase, id |-> ps[k].id])]
         ELSE IF phase = "discovery"
         THEN [acc EXCEPT
                 !.observations = Visit(acc, ps[k], time).observations,
                 !.log = IF Len(ps[k].trail) >= 2
                         THEN Append(@, [phase |-> phase, id |-> ps[k].id])
                         ELSE @]
         ELSE [acc EXCEPT
                 !.meta = Visit(acc, ps[k], time).meta,
                 !.log = Append(@, [phase |-> phase, id |-> ps[k].id])],
         phase)

\* The frame's second half run phase by phase: every submission, then every
\* observation, then every adaptation.
ForEachPhased(ps, k, time, acc) ==
  PhaseLoop(ps, k, time,
    PhaseLoop(ps, k, time,
      PhaseLoop(ps, k, time, acc, "aggregator"), "discovery"), "meta")

\* updatedParticles.forEach from the k-th particle on.
RECURSIVE ForEachUpdated(_, _, _, _)
ForEachUpdated(ps, k, time, acc) ==
  IF k > Len(ps) THEN acc
  ELSE ForEachUpdated(ps, k + 1, time, Visit(acc, ps[k], time))

\* The log of line 139: update() has advanced every particle, in the Map's
\* order, before the forEach of line 150 starts.
Advanced(steps) ==
  SeqOf([i \in 1..Len(steps) |->
           [phase |-> "particles", id |-> steps[i].particle.id]], Len(steps))

\* What the panels are handed (lines 196-207), read from the aggregator `seen`
\* and the discovery buffer.
Readings(seen, buffer) ==
  [ globalPosterior |-> getGlobalPosterior(seen),
    discoveredEquations |-> getAllDiscoveredEquations(buffer),
    mutualInformation |-> calculateMutualInformation(seen),
    convergenceMetrics |-> getConvergenceMetrics(seen) ]

\* What one animate frame writes once update() has returned r and the
\* forEach has left e (lines 146-148 and 196-209), the panels' readings being
\* taken from the aggregator `seen` when the frame's log held `at` entries.
FrameRead(r, e, seen, at) ==
  /\ particles' = r.particles
  /\ collisionEvents' = r.events
  /\ universe' = e.universe
  /\ observations' = e.observations
  /\ meta' = e.meta
  /\ published' = Readings(seen, e.observations)
  /\ timeStep' = timeStep + DT
  /\ last' = [NoCall EXCEPT !.op = "animate", !.le = animateLearning,
                            !.pre = Briefs(particles),
                            !.steps = StepBriefs(r.steps),
                            !.log = e.log,
                            !.readAt = at]

\* Every estimator given the noise levels the meta-learner has arrived at.
Retuned(ps, agent) ==
  SeqOf([k \in 1..Len(ps) |->
           [ps[k] EXCEPT
              !.filter.Q = scalarMultiply(identity(7),
                                          agent.state.processNoise),
              !.filter.R = agent.state.measurementNoise]], Len(ps))

\* The frame with the meta-learner's noise levels written into the estimators.
FrameTuning(r, e) ==
  FrameRead([r EXCEPT !.particles = Retuned(r.particles, e.meta)], e,
            e.universe, Len(e.log))

\* The frame as written: the readings follow the forEach.
Frame(r, e) == FrameRead(r, e, e.universe, Len(e.log))

\* The frame with the readings taken before the forEach of line 150.
FramedEarly(r) ==
  FrameRead(r,
    ForEachUpdated(r.particles, 1, timeStep,
      [ universe |-> universe, observations |-> observations,
        meta |-> meta, log |-> Advanced(r.steps) ]),
    universe, Len(r.steps))

\* The frame once update() has returned r.
Framed(r) ==
  Frame(r, ForEachUpdated(r.particles, 1, timeStep,
             [ universe |-> universe, observations |-> observations,
               meta |-> meta, log |-> Advanced(r.steps) ]))

\* animate(): one frame of the loop the effect of lines 132-220 starts.  The
\* effect has no dependencies, so the closure keeps the learningEnabled of
\* the first render.
Animate ==
  /\ ticks < MaxTicks
  /\ \E n \in Noises :
       Framed(SystemUpdate(particles, animateLearning,
                           [i \in 1..Len(particles) |-> n]))
  /\ ticks' = ticks + 1
  /\ UNCHANGED << returned, writes, twin, nextId, learningEnabled,
                  animateLearning, timers, presets >>

\* handleSpawnParticle().
HandleSpawnParticle ==
  /\ nextId < MaxParticles
  /\ \E sc \in AppScenes :
       particles' = MapSet(particles,
                      NewParticle(IdOf(nextId + 1), sc.position, sc.velocity,
                                  sc.r))
  /\ nextId' = nextId + 1
  /\ last' = [NoCall EXCEPT !.op = "spawn"]
  /\ UNCHANGED << collisionEvents, returned, writes, twin, ticks >>
  /\ UNCHANGED appVars

\* handleClear() with the aggregator and the discovery engine left as they are.
HandleClearParticles ==
  /\ particles' = << >>
  /\ timeStep' = 0
  /\ last' = [NoCall EXCEPT !.op = "clear", !.pre = Briefs(particles),
                            !.had = [ beliefs |-> Len(universe.particleBeliefs),
                                      observations |-> Len(observations) ]]
  /\ UNCHANGED << collisionEvents, returned, writes, twin, nextId, ticks,
                  universe, observations, meta, learningEnabled,
                  animateLearning, timers, published, presets >>

\* The pending timeouts as a handleClear() leaves them: all still pending
\* (lines 241-253 call no clearTimeout), each noted as set before a clear.
Outlived(pending) == { [t EXCEPT !.cleared = TRUE] : t \in pending }

\* handleClear(): the particles go, the aggregator and the discovery engine
\* are replaced by new ones, the time step restarts; the meta-learner and the
\* pending timeouts stay.
HandleClear ==
  /\ particles' = << >>
  /\ universe' = NewUniverse
  /\ observations' = NewDiscovery
  /\ timeStep' = 0
  /\ timers' = Outlived(timers)
  /\ last' = [NoCall EXCEPT !.op = "clear", !.pre = Briefs(particles),
                            !.had = [ beliefs |-> Len(universe.particleBeliefs),
                                      observations |-> Len(observations) ]]
  /\ UNCHANGED << collisionEvents, returned, writes, twin, nextId, ticks,
                  meta, learningEnabled, animateLearning, published,
                  presets >>

\* onToggleLearning: setLearningEnabled(!learningEnabled).
ToggleLearning ==
  /\ learningEnabled' = ~learningEnabled
  /\ last' = [NoCall EXCEPT !.op = "toggle"]
  /\ UNCHANGED << particles, collisionEvents, returned, writes, twin, nextId,
                  ticks, universe, observations, meta, timeStep,
                  animateLearning, timers, published, presets >>

\* The configuration handlePresetSelect is called with here: the shipped
\* "Single Particle" (the other shipped ones hold 5, 10, 8 and 15 particles).
PresetConfigs ==
  { [count |-> 1, initialVelocity |-> Vec(0, 0, 0), spread |-> 10000] }

\* cos and sin of (i / count) * 2 * pi for i = 0, the only index of a preset
\* of one particle.
CosOf(i, count) == SCALE

SinOf(i, count) == 0

\* The particle the i-th timeout callback of lines 266-285 creates, with its
\* Math.random() draws all at 0.5: radius spread / 2, no z offset, no jitter.
PresetParticle(id, t) ==
  NewParticle(id,
    Vec(Mul(CosOf(t.i, t.count), Mul(5000, t.spread)),
        Mul(SinOf(t.i, t.count), Mul(5000, t.spread)) + 20000,
        0),
    t.initialVelocity, DrawMid)

\* The timeouts handlePresetSelect schedules: one per particle, i * 100 ms out.
\* `cleared` is kept beside the timeout: whether handleClear() has run since
\* it was set.  No code reads it.
TimersOf(batch, preset) ==
  { [ batch |-> batch, i |-> i, count |-> preset.count,
      initialVelocity |-> preset.initialVelocity, spread |-> preset.spread,
      cleared |-> FALSE ] :
    i \in 0..(preset.count - 1) }

\* handlePresetSelect(preset): handleClear(), then the timeouts.
HandlePresetSelect ==
  /\ presets < MaxPresets
  /\ \E preset \in PresetConfigs :
       /\ nextId + preset.count <= MaxParticles
       /\ timers' = Outlived(timers) \cup TimersOf(presets + 1, preset)
  /\ presets' = presets + 1
  /\ particles' = << >>
  /\ universe' = NewUniverse
  /\ observations' = NewDiscovery
  /\ timeStep' = 0
  /\ last' = [NoCall EXCEPT !.op = "preset", !.pre = Briefs(particles),
                            !.had = [ beliefs |-> Len(universe.particleBeliefs),
                                      observations |-> Len(observations) ]]
  /\ UNCHANGED << collisionEvents, returned, writes, twin, nextId, ticks,
                  meta, learningEnabled, animateLearning, published >>

\* A timeout callback of handlePresetSelect runs: those of one call in the
\* order of their delays, and none before an earlier call's of no later delay.
TimerFire ==
  /\ \E t \in timers :
       /\ \A o \in timers :
            (o.batch <= t.batch /\ o.i <= t.i) => o = t
       /\ particles' = MapSet(particles, PresetParticle(IdOf(nextId + 1), t))
       /\ timers' = timers \ { t }
       /\ last' = [NoCall EXCEPT !.op = "timer", !.args = << t >>]
  /\ nextId' = nextId + 1
  /\ UNCHANGED << collisionEvents, returned, writes, twin, ticks, universe,
                  observations, meta, timeStep, learningEnabled,
                  animateLearning, published, presets >>

AppNext ==
  \/ Animate
  \/ HandleSpawnParticle
  \/ HandleClear
  \/ ToggleLearning
  \/ HandlePresetSelect
  \/ TimerFire

AppSpec == Init /\ [][AppNext]_vars

\* --------------------------------------------------------- claims on the App

\* C3: once the user has toggled learning off, every animate frame runs
\* ParticleSystem.update with learningEnabled = false, so no estimator is
\* corrected, until learning is toggled on again.
C3_ToggleOffStopsLearning ==
  (last.op = "animate" /\ ~learningEnabled) =>
    /\ ~last.le
    /\ \A i \in 1..Len(last.steps) : last.steps[i].calls = << "predict" >>

\* C9: right after Clear (the button's, or the one a preset starts with) the particle set is empty, the global posterior is
\* the constructor's priors (gravity 9.8 / 25, mass 1.0 / 4, friction 0.1 / 1,
\* consensusStrength 0, informationGain 0, no samples), and the discovery
\* buffer is empty, so that all three discovered equations are null.
C9_ClearResets ==
  last.op \in { "clear", "preset" } =>
    /\ particles = << >>
    /\ getGlobalPosterior(universe).gravity.mean = 98000
    /\ getGlobalPosterior(universe).gravity.variance = 250000
    /\ getGlobalPosterior(universe).gravity.samples = << >>
    /\ getGlobalPosterior(universe).mass.mean = 10000
    /\ getGlobalPosterior(universe).mass.variance = 40000
    /\ getGlobalPosterior(universe).mass.samples = << >>
    /\ getGlobalPosterior(universe).friction.mean = 1000
    /\ getGlobalPosterior(universe).friction.variance = 10000
    /\ getGlobalPosterior(universe).friction.samples = << >>
    /\ getGlobalPosterior(universe).consensusStrength = 0
    /\ getGlobalPosterior(universe).informationGain = 0
    /\ observations = << >>
    /\ getAllDiscoveredEquations(observations)
         = [gravity |-> Null, velocity |-> Null, position |-> Null]

\* C9's case: Clear has run on particles whose beliefs the aggregator held
\* and whose motion the discovery buffer held.
C9_Witness ==
  /\ last.op = "clear"
  /\ last.pre # << >>
  /\ last.had.beliefs > 0
  /\ last.had.observations > 0

\* C10 as stated: in every frame all particles are advanced first, every
\* aggregator submission comes before any discovery observation, and every
\* discovery observation before any meta-learning adaptation.
C10_PhaseOrder ==
  last.op = "animate" =>
    \A i, j \in 1..Len(last.log) :
      i < j =>
        /\ last.log[j].phase = "particles" => last.log[i].phase = "particles"
        /\ last.log[j].phase = "aggregator" => last.log[i].phase # "discovery"
        /\ last.log[j].phase = "discovery" => last.log[i].phase # "meta"

\* The place of a phase within one particle's visit.
Rank(phase) ==
  CASE phase = "particles" -> 0
    [] phase = "aggregator" -> 1
    [] phase = "discovery" -> 2
    [] phase = "meta" -> 3

\* C10, amended: in every frame all particles are advanced first; then the
\* particles are visited one by one in the Map's order, each getting its
\* aggregator submission, then its discovery observation (only with a trail
\* of two or more), then its meta-learning adaptation, before the next one.
C10_PerParticleOrder ==
  last.op = "animate" =>
    /\ \A i, j \in 1..Len(last.log) :
         i < j =>
           /\ last.log[j].phase = "particles" =>
                last.log[i].phase = "particles"
           /\ IndexOf(particles, last.log[i].id, 1)
                # IndexOf(particles, last.log[j].id, 1) =>
                \/ last.log[i].phase = "particles"
                \/ IndexOf(particles, last.log[i].id, 1)
                     < IndexOf(particles, last.log[j].id, 1)
           /\ last.log[i].id = last.log[j].id =>
                Rank(last.log[i].phase) < Rank(last.log[j].phase)
    /\ \A k \in 1..Len(particles) :
         \A phase \in { "particles", "aggregator", "discovery", "meta" } :
           (\E i \in 1..Len(last.log) :
              last.log[i] = [phase |-> phase, id |-> particles[k].id])
           <=> (phase = "discovery" => Len(particles[k].trail) >= 2)

\* C10's case: a frame has visited two particles, each with a trail long
\* enough to give discovery an observation.
C10_Witness ==
  /\ last.op = "animate"
  /\ Len(particles) = 2
  /\ \A k \in 1..2 :
       \E i \in 1..Len(last.log) :
         last.log[i] = [phase |-> "discovery", id |-> particles[k].id]

\* C11: in every frame the global posterior, the mutual information and the
\* convergence metrics handed to the panels are read after the belief of
\* every living particle was submitted to the aggregator in that frame: they
\* are those of the aggregator the frame leaves, which holds one sample per
\* living particle.
C11_ReadAfterAllWrites ==
  last.op = "animate" =>
    /\ \A k \in 1..Len(particles) :
         \E i \in 1..last.readAt :
           last.log[i] = [phase |-> "aggregator", id |-> particles[k].id]
    /\ \A i \in 1..Len(last.log) :
         last.log[i].phase = "aggregator" => i <= last.readAt
    /\ published.globalPosterior = getGlobalPosterior(universe)
    /\ published.mutualInformation = calculateMutualInformation(universe)
    /\ published.convergenceMetrics = getConvergenceMetrics(universe)
    /\ Len(published.globalPosterior.gravity.samples) = Len(particles)

\* C11's case: a second frame has submitted the beliefs of two particles, so
\* the aggregator it started from already held older beliefs of both.
C11_Witness ==
  /\ last.op = "animate"
  /\ ticks = 2
  /\ Len(particles) = 2
  /\ Len(universe.history) = 4
  /\ published.mutualInformation > 0

\* ------------------------------- the aggregator, called directly (a library)

\* How many updateGlobalPosterior calls a run makes, and how many of them
\* choose their arguments freely; the later ones repeat the last call.
MaxSubmits == 12

FreeSubmits == 3

AggIds == { IdOf(1), IdOf(2) }

\* Beliefs a caller submits: (9.8, 1.0, 0.1) held with variance 38 and with
\* variance 10, and (12.0, 2.0, 0.3) held with variance 5.
AggBeliefs ==
  { [g |-> 98000, m |-> 10000, mu |-> 1000, variance |-> 380000],
    [g |-> 98000, m |-> 10000, mu |-> 1000, variance |-> 100000],
    [g |-> 120000, m |-> 20000, mu |-> 3000, variance |-> 50000] }

\* universe.updateGlobalPosterior(id, b).
Submit ==
  /\ ticks < MaxSubmits
  /\ \E id \in AggIds, b \in AggBeliefs :
       /\ ticks >= FreeSubmits => last.args = << id, b >>
       /\ universe' = updateGlobalPosterior(universe, id, b)
       /\ last' = [NoCall EXCEPT !.op = "submit", !.args = << id, b >>,
                                 !.old = << universe >>]
  /\ ticks' = ticks + 1
  /\ UNCHANGED << particles, collisionEvents, returned, twin, observations,
                  meta, timeStep, learningEnabled, animateLearning, timers,
                  published, writes, nextId, presets >>

AggNext == Submit

AggSpec == Init /\ [][AggNext]_vars

\* Every registered particle holds the belief (g, m, mu) of the first one.
SameBeliefs(u) ==
  \A i \in 1..Len(u.particleBeliefs) :
    /\ u.particleBeliefs[i].belief.g = u.particleBeliefs[1].belief.g
    /\ u.particleBeliefs[i].belief.m = u.particleBeliefs[1].belief.m
    /\ u.particleBeliefs[i].belief.mu = u.particleBeliefs[1].belief.mu

\* C12: when every registered particle holds the same (g, m, mu) belief, one
\* particle alone included, updateGlobalPosterior leaves each constant's
\* posterior mean equal to that belief and consensusStrength = 1; with two
\* such particles calculateMutualInformation returns 1.
C12_CommonBelief ==
  (last.op = "submit" /\ SameBeliefs(universe)) =>
    /\ universe.globalPosterior.gravity.mean
         = universe.particleBeliefs[1].belief.g
    /\ universe.globalPosterior.mass.mean
         = universe.particleBeliefs[1].belief.m
    /\ universe.globalPosterior.friction.mean
         = universe.particleBeliefs[1].belief.mu
    /\ universe.globalPosterior.consensusStrength = SCALE
    /\ Len(universe.particleBeliefs) = 2 =>
         calculateMutualInformation(universe) = SCALE

\* C12's case: two particles hold the same belief with different variances.
C12_Witness ==
  /\ last.op = "submit"
  /\ Len(universe.particleBeliefs) = 2
  /\ SameBeliefs(universe)
  /\ universe.particleBeliefs[1].belief.variance
       # universe.particleBeliefs[2].belief.variance

\* C13: informationGain never decreases: after an updateGlobalPosterior call
\* it is no smaller than before, and it has grown by exactly the mean over the
\* three constants of max(0, old entropy - new entropy).
C13_InformationGain ==
  last.op = "submit" =>
    /\ universe.globalPosterior.informationGain
         >= last.old[1].globalPosterior.informationGain
    /\ universe.globalPosterior.informationGain
         = last.old[1].globalPosterior.informationGain
           + DivInt(  Max(0, last.old[1].globalPosterior.gravity.entropy
                             - universe.globalPosterior.gravity.entropy)
                    + Max(0, last.old[1].globalPosterior.mass.entropy
                             - universe.globalPosterior.mass.entropy)
                    + Max(0, last.old[1].globalPosterior.friction.entropy
                             - universe.globalPosterior.friction.entropy),
                    3)

\* C13's case: a call after which the gravity entropy has dropped and the mass
\* entropy has risen, so that one difference counts and one is cut to 0.
C13_Witness ==
  /\ last.op = "submit"
  /\ universe.globalPosterior.gravity.entropy
       < last.old[1].globalPosterior.gravity.entropy
  /\ universe.globalPosterior.mass.entropy
       > last.old[1].globalPosterior.mass.entropy
  /\ universe.globalPosterior.informationGain
       > last.old[1].globalPosterior.informationGain

\* The stored sample lists of the three constants.
SamplesOf(post) ==
  << post.gravity.samples, post.mass.samples, post.friction.samples >>

\* The entropy and consensus figures of a posterior.
FiguresOf(post) ==
  << post.gravity.entropy, post.mass.entropy, post.friction.entropy,
     post.consensusStrength >>

\* C14: the entropy and consensus figures of a GlobalPosterior are a function
\* of its stored per-constant sample lists alone: two aggregator states with
\* identical sample lists, here the one before and the one after a call, have
\* identical entropies and consensusStrength.
C14_FiguresFromSamples ==
  (last.op = "submit"
   /\ SamplesOf(universe.globalPosterior)
        = SamplesOf(last.old[1].globalPosterior)) =>
    FiguresOf(universe.globalPosterior)
      = FiguresOf(last.old[1].globalPosterior)

\* -------------------------------------------------- the App, left running

\* How many frames a run of the App renders, and how many of the first ones
\* draw their observation noise freely; the later ones draw the high end.
MaxFrames == 52

FreeFrames == 1

\* handleSpawnParticle(), clicked before the first frame.
RunSpawn ==
  /\ ticks = 0
  /\ HandleSpawnParticle

\* animate(): one frame of a long run.
RunAnimate ==
  /\ ticks < MaxFrames
  /\ \E n \in Noises :
       /\ ticks >= FreeFrames => n = NoiseOf(49)
       /\ Framed(SystemUpdate(particles, animateLearning,
                              [i \in 1..Len(particles) |-> n]))
  /\ ticks' = ticks + 1
  /\ UNCHANGED << returned, writes, twin, nextId, learningEnabled,
                  animateLearning, timers, presets >>

RunNext == RunSpawn \/ RunAnimate

RunSpec == Init /\ [][RunNext]_vars

\* C15: too little data gives a no-result value: discoverGravityEquation and
\* discoverVelocityEquation return null below 10 buffered observations and
\* discoverPositionEquation below 20, getConvergenceMetrics returns
\* {converged: false, convergenceRate: 0, stability: 0} below 10 history
\* entries; from those counts on each returns a result that is not null.
C15_NoResult ==
  /\ IF Len(observations) < 10
     THEN /\ discoverGravityEquation(observations) = Null
          /\ discoverVelocityEquation(observations) = Null
     ELSE /\ discoverGravityEquation(observations) # Null
          /\ discoverVelocityEquation(observations) # Null
  /\ IF Len(observations) < 20
     THEN discoverPositionEquation(observations) = Null
     ELSE discoverPositionEquation(observations) # Null
  /\ IF Len(universe.history) < 10
     THEN getConvergenceMetrics(universe)
            = [converged |-> FALSE, convergenceRate |-> 0, stability |-> 0]
     ELSE /\ getConvergenceMetrics(universe) # Null
          /\ getConvergenceMetrics(universe).stability > 0

\* C15's case: the run has buffered its 20th observation, the history having
\* passed 10 entries on the way, and the panels were handed all four results.
C15_Witness ==
  /\ Len(observations) = 20
  /\ Len(universe.history) >= 10
  /\ published.discoveredEquations.position # Null
  /\ published.convergenceMetrics
       = getConvergenceMetrics(universe)

\* ---------------------- the discovery engine, called directly (a library)

\* How many addObservation calls a run makes, and how many of them choose
\* their arguments freely; the later ones repeat the last call's motion at a
\* later time.
MaxAdds == 502

FreeAdds == 2

\* The motions a caller reports: at rest on the floor, and in free fall.
Motions ==
  { [ position |-> [x |-> 0, y |-> -50000], velocity |-> [x |-> 0, y |-> 0],
      acceleration |-> [x |-> 0, y |-> 0] ],
    [ position |-> [x |-> 10000, y |-> 20000],
      velocity |-> [x |-> 5000, y |-> -15680],
      acceleration |-> [x |-> 0, y |-> -98000] ] }

\* discovery.addObservation(position, velocity, acceleration, time); the
\* record of the call keeps every observation ever added, in order.
Observe ==
  /\ ticks < MaxAdds
  /\ \E mo \in Motions :
       /\ ticks >= FreeAdds => last.args = << mo >>
       /\ observations' = addObservation(observations, mo.position,
                             mo.velocity, mo.acceleration, timeStep)
       /\ last' = [NoCall EXCEPT
                     !.op = "observe", !.args = << mo >>,
                     !.log = Append(last.log,
                               [ position |-> mo.position,
                                 velocity |-> mo.velocity,
                                 acceleration |-> mo.acceleration,
                                 time |-> timeStep ])]
  /\ timeStep' = timeStep + DT
  /\ ticks' = ticks + 1
  /\ UNCHANGED << particles, collisionEvents, returned, twin, universe, meta,
                  learningEnabled, animateLearning, timers, published, writes,
                  nextId, presets >>

DiscNext == Observe

DiscSpec == Init /\ [][DiscNext]_vars

\* C16: after any sequence of addObservation calls the buffer holds at most
\* 500 observations, and they are exactly the most recently added ones, in the
\* order they were added: the oldest goes first.
C16_BufferFifo ==
  /\ Len(observations) <= 500
  /\ Len(observations) = Min(500, Len(last.log))
  /\ observations
       = SubSeq(last.log, Len(last.log) - Len(observations) + 1, Len(last.log))

\* C16's case: 502 observations were added, so the first two are gone.
C16_Witness ==
  /\ last.op = "observe"
  /\ Len(last.log) = 502
  /\ Len(observations) = 500
  /\ observations[1] = last.log[3]
  /\ observations[1] # last.log[1]

\* C17: after any number of ticks a particle's trail holds at most 50 entries,
\* one appended per tick: each tick appends the position it wrote, dropping
\* the oldest entry of a full trail, so the trail is the latest
\* min(50, ticks lived) positions in tick order.
C17_TrailBounded ==
  /\ \A k \in 1..Len(particles) :
       /\ Len(particles[k].trail) <= 50
       /\ Len(particles[k].trail) = Min(50, particles[k].age \div DT)
  /\ last.op = "animate" =>
       \A k \in 1..Len(particles) :
         /\ SubSeq(particles[k].trail, 1, Len(particles[k].trail) - 1)
              = IF Len(last.pre[k].trail) = 50
                THEN Tail(last.pre[k].trail)
                ELSE last.pre[k].trail
         /\ particles[k].trail[Len(particles[k].trail)].x
              = last.steps[k].written.position.x
         /\ particles[k].trail[Len(particles[k].trail)].y
              = last.steps[k].written.position.y
         /\ particles[k].trail[Len(particles[k].trail)].z
              = last.steps[k].written.position.z

\* C17's case: a particle has lived 52 ticks, and its trail was full before
\* the last one.
C17_Witness ==
  /\ last.op = "animate"
  /\ Len(particles) = 2
  /\ particles[1].age = 52 * DT
  /\ Len(last.pre[1].trail) = 50
  /\ Len(particles[1].trail) = 50
  /\ particles[1].trail[1] # particles[1].trail[50]

\* ------------------------------ the estimator, called directly (a library)

\* How many predict() and update() calls a run makes on one estimator.
MaxCalls == 6

\* What update() is given, as offsets from the estimate it corrects: an
\* observation 0.0049 off on every term, and one several units away.
Sightings ==
  { [px |-> 49, py |-> 49, vx |-> 49, vy |-> 49],
    [px |-> 40000, py |-> -30000, vx |-> -20000, vy |-> 30000] }

\* createParticle(...), which builds the estimator with the spawn covariance;
\* the runs of this section hold one.
FilterCreate ==
  /\ particles = << >>
  /\ CreateParticle

\* particle.filter.predict().
FilterPredict ==
  /\ ticks < MaxCalls
  /\ particles # << >>
  /\ particles' = [particles EXCEPT ![1].filter = predict(@)]
  /\ last' = [NoCall EXCEPT !.op = "predict",
                            !.old = << particles[1].filter >>]
  /\ ticks' = ticks + 1
  /\ UNCHANGED << collisionEvents, returned, writes, twin, nextId >>
  /\ UNCHANGED appVars

\* particle.filter.update(observedPosition, observedVelocity).
FilterUpdate ==
  /\ ticks < MaxCalls
  /\ particles # << >>
  /\ \E z \in Sightings :
       particles' =
         [particles EXCEPT ![1].filter =
            update(@, [x |-> @.state.px + z.px, y |-> @.state.py + z.py],
                      [x |-> @.state.vx + z.vx, y |-> @.state.vy + z.vy])]
  /\ last' = [NoCall EXCEPT !.op = "update",
                            !.old = << particles[1].filter >>]
  /\ ticks' = ticks + 1
  /\ UNCHANGED << collisionEvents, returned, writes, twin, nextId >>
  /\ UNCHANGED appVars

FilterNext == FilterCreate \/ FilterPredict \/ FilterUpdate

FilterSpec == Init /\ [][FilterNext]_vars

\* C18: from the spawn covariance (diagonal 10, 10, 10, 10, 5, 2, 1), after
\* any sequence of predict() and update() calls every diagonal entry of the
\* estimator's covariance matrix is non-negative, and so is getVariance().
C18_DiagonalNonNegative ==
  \A k \in 1..Len(particles) :
    /\ \A i \in 1..7 : particles[k].filter.P[i][i] >= 0
    /\ getVariance(particles[k].filter) >= 0

\* C18's case: six calls, the last an update() that has brought the variance
\* of px below the measurement noise.
C18_Witness ==
  /\ last.op = "update"
  /\ ticks = 6
  /\ particles[1].filter.P[1][1] < particles[1].filter.R
  /\ particles[1].filter.P[1][1] < last.old[1].P[1][1]

\* C19: predict() never decreases the covariance trace: in every reachable
\* estimator state the trace (and so getVariance()) after a predict() is
\* greater than or equal to the trace before it.
C19_TraceNonDecreasing ==
  last.op = "predict" =>
    /\ TraceFrom(particles[1].filter.P, 1) >= TraceFrom(last.old[1].P, 1)
    /\ getVariance(particles[1].filter)
         >= TraceFrom(last.old[1].P, 1) \div 7

\* ---------------------------- the meta-learner, called directly (a library)

\* How many adapt calls a run makes, and how many of them choose their
\* arguments freely; the later ones repeat the last call at a later time.
MaxAdapts == 240

FreeAdapts == 2

\* (currentVariance, previousVariance) as a caller passes them: the variance
\* down by a tenth, up by a tenth, and unchanged.
VariancePairs ==
  { << 90000, 100000 >>, << 110000, 100000 >>, << 100000, 100000 >> }

\* metaLearning.adapt(currentVariance, previousVariance, timeStep).
Adapt ==
  /\ ticks < MaxAdapts
  /\ \E v \in VariancePairs :
       /\ ticks >= FreeAdapts => last.args = v
       /\ meta' = adapt(meta, v[1], v[2], timeStep)
       /\ last' = [NoCall EXCEPT !.op = "adapt", !.args = v,
                                 !.old = << meta >>]
  /\ timeStep' = timeStep + DT
  /\ ticks' = ticks + 1
  /\ UNCHANGED << particles, collisionEvents, returned, twin, universe,
                  observations, learningEnabled, animateLearning, timers,
                  published, writes, nextId, presets >>

MetaNext == Adapt

MetaSpec == Init /\ [][MetaNext]_vars

\* The average of the performance history, as adapt takes it.
AveragePerformance(agent) ==
  IF Len(agent.performanceHistory) > 0
  THEN DivInt(SumSeq(agent.performanceHistory), Len(agent.performanceHistory))
  ELSE 0

\* C20: after any sequence of adapt calls the learning rate lies in
\* [0.1, 2.0]; one adapt call multiplies it by 1.01, capped at 2.0, when the
\* average of the performance history is above 0.01, by 0.99, floored at 0.1,
\* when that average is below -0.01, and leaves it as it is otherwise.
C20_LearningRate ==
  /\ meta.state.learningRate >= 1000
  /\ meta.state.learningRate <= 20000
  /\ last.op = "adapt" =>
       meta.state.learningRate
         = IF AveragePerformance(meta) > 100
           THEN Min(20000, Mul(last.old[1].state.learningRate, 10100))
           ELSE IF AveragePerformance(meta) < -100
           THEN Max(1000, Mul(last.old[1].state.learningRate, 9900))
           ELSE last.old[1].state.learningRate

\* C20's case: the rate has come down to the floor of 0.1, and a further call
\* with the average below -0.01 has left it there.
C20_Witness ==
  /\ last.op = "adapt"
  /\ AveragePerformance(meta) < -100
  /\ last.old[1].state.learningRate = 1000
  /\ meta.state.learningRate = 1000
  /\ Len(meta.performanceHistory) = 100

\* C21: meta-learning is advisory only: whatever ticks and adapt calls have
\* run, the process-noise matrix Q and the measurement noise R of every
\* estimator are those its constructor set (Q diagonal 0.01 for position and
\* velocity, 0.0001 for g, m and mu; R 0.1).
C21_NoiseUntouched ==
  \A k \in 1..Len(particles) :
    /\ particles[k].filter.R = 1000
    /\ \A i, j \in 1..7 :
         particles[k].filter.Q[i][j]
           = IF i # j THEN 0 ELSE IF i <= 4 THEN 100 ELSE 1

\* C21's case: frames have run adapt at least twice on living particles, and
\* the meta-learner's noise levels have left the constructor's.
C21_Witness ==
  /\ last.op = "animate"
  /\ particles # << >>
  /\ Len(meta.state.adaptationHistory) >= 2
  /\ meta.state.processNoise # 100
  /\ meta.state.measurementNoise # 1000

\* --------------------- the estimator, built directly with a given covariance

\* The initialCovariance a caller passes to the constructor: -0.1, which
\* cancels the measurement noise and leaves S all zero, then 0 and 10.
Covariances == { -1000, 0, 100000 }

\* new ExtendedKalmanFilter(initialState, initialCovariance, dt), held by a
\* particle in place of the estimator createParticle builds.
FilterConstruct ==
  /\ particles = << >>
  /\ \E sc \in Scenes, r \in Draws, c \in Covariances :
       particles' =
         << [NewParticle(IdOf(1), sc.position, sc.velocity, r)
               EXCEPT !.filter = NewFilter(@.state, c, DT)] >>
  /\ nextId' = nextId + 1
  /\ last' = [NoCall EXCEPT !.op = "construct"]
  /\ UNCHANGED << collisionEvents, returned, writes, twin, ticks >>
  /\ UNCHANGED appVars

\* update(...) as the first call on the new estimator.
FirstUpdate ==
  /\ last.op = "construct"
  /\ FilterUpdate

SingularNext == FilterConstruct \/ FirstUpdate

SingularSpec == Init /\ [][SingularNext]_vars

\* Every number of the estimator's state and covariance is a finite number.
Finite(f) ==
  /\ \A i, j \in 1..7 : f.P[i][j] \in Int
  /\ { f.state.px, f.state.py, f.state.vx, f.state.vy,
       f.state.g, f.state.m, f.state.mu } \subseteq Int

MaxBodies == 3

\* Rounding on the number grid, in grid units: what two computations of the
\* same quantity may differ by.
GridSlack == 5

Near(a, b) == Abs(a - b) <= GridSlack

\* What the callers create: p1..p3 in a row on x, 0.3 apart, p1 heading for
\* the other two, which move together; p4 0.5 from p1 on a diagonal, closing
\* slowly; p5 0.3 above p1, moving away from it; p6 and p7 0.3 apart under the
\* top of the box on z, p7 catching up with p6; p8 outside the box on all
\* three axes, moving outwards.
Bodies ==
  { [id |-> IdOf(1), position |-> Vec(0, 0, 0), velocity |-> Vec(10000, 0, 0)],
    [id |-> IdOf(2), position |-> Vec(3000, 0, 0),
     velocity |-> Vec(-10000, 0, 0)],
    [id |-> IdOf(3), position |-> Vec(6000, 0, 0),
     velocity |-> Vec(-10000, 0, 0)],
    [id |-> IdOf(4), position |-> Vec(3000, 4000, 0),
     velocity |-> Vec(8000, 0, 0)],
    [id |-> IdOf(5), position |-> Vec(0, 3000, 0),
     velocity |-> Vec(10000, 2000, 0)],
    [id |-> IdOf(6), position |-> Vec(0, 0, 49000),
     velocity |-> Vec(0, 0, 10000)],
    [id |-> IdOf(7), position |-> Vec(0, 0, 46000),
     velocity |-> Vec(0, 0, 20000)],
    [id |-> IdOf(8), position |-> Vec(52000, -53000, -52000),
     velocity |-> Vec(10000, -10000, -10000)] }

\* The particles that are placed together.
Clusters ==
  { { IdOf(1), IdOf(2), IdOf(3) }, { IdOf(1), IdOf(4) }, { IdOf(1), IdOf(5) },
    { IdOf(6), IdOf(7) }, { IdOf(1), IdOf(2), IdOf(8) } }

\* particleSystem.createParticle(id, position, velocity) before the first
\* call, the three belief draws at 0.5.
Place ==
  /\ ticks = 0
  /\ Len(particles) < MaxBodies
  /\ \E b \in Bodies :
       /\ IndexOf(particles, b.id, 1) = 0
       /\ \E c \in Clusters :
            { particles[k].id : k \in 1..Len(particles) } \cup { b.id }
              \subseteq c
       /\ particles' = MapSet(particles,
                         NewParticle(b.id, b.position, b.velocity, DrawMid))
  /\ nextId' = nextId + 1
  /\ last' = [NoCall EXCEPT !.op = "create"]
  /\ UNCHANGED << collisionEvents, returned, writes, twin, ticks >>
  /\ UNCHANGED appVars

\* collisionSystem.checkParticleCollisions(particleSystem.getParticles()):
\* the array holds the system's own particles, so the pass moves them;
\* collisionEvents is what the call returned.
CollisionPass ==
  /\ ticks < MaxTicks
  /\ particles # << >>
  /\ \E r \in { checkParticleCollisions(particles) } :
       /\ particles' = r.particles
       /\ collisionEvents' = r.events
  /\ last' = [NoCall EXCEPT !.op = "pass", !.pre = Briefs(particles)]
  /\ ticks' = ticks + 1
  /\ UNCHANGED << returned, writes, twin, nextId >>
  /\ UNCHANGED appVars

CollNext == Place \/ CollisionPass \/ Update

CollSpec == Init /\ [][CollNext]_vars

\* The distance between two particles, as line 35 takes it.
Gap(a, b) ==
  Distance(b.position.x - a.position.x, b.position.y - a.position.y,
           b.position.z - a.position.z)

\* The pair passes line 38: closer than 2 * 0.4 and further than 0.01.
Touching(a, b) == Gap(a, b) < 2 * collisionRadius /\ Gap(a, b) > 100

\* No third particle is anywhere near the pair (i, j) of ps.
OnlyPair(ps, i, j) ==
  \A k \in 1..Len(ps) :
    k \in { i, j } \/ (/\ Gap(ps[k], ps[i]) >= 4 * collisionRadius
                       /\ Gap(ps[k], ps[j]) >= 4 * collisionRadius)

SameMotion(a, b) == a.position = b.position /\ a.velocity = b.velocity

\* C23 as stated: a pair within 2 x radius whose relative velocity along the
\* normal is >= 0, exactly 0 included, is skipped: neither particle's velocity
\* nor position is changed and no event is emitted.
C23_SeparatingSkipped ==
  last.op = "pass" =>
    \A i, j \in 1..Len(last.pre) :
      (/\ i < j
       /\ OnlyPair(last.pre, i, j)
       /\ Touching(last.pre[i], last.pre[j])
       /\ AlongNormal(last.pre[i], last.pre[j],
                      NormalOf(last.pre[i], last.pre[j])) >= 0) =>
        /\ SameMotion(particles[i], last.pre[i])
        /\ SameMotion(particles[j], last.pre[j])
        /\ collisionEvents = << >>

\* C23, amended: a pair within 2 x radius is skipped when its relative
\* velocity along the normal is above 0.  At exactly 0 the pair is resolved
\* with an impulse of 0: the velocities stay and no event is emitted, but the
\* two particles are pushed apart to a distance of 2 x radius.
C23_MovingApartSkipped ==
  last.op = "pass" =>
    \A i, j \in 1..Len(last.pre) :
      (/\ i < j
       /\ OnlyPair(last.pre, i, j)
       /\ Touching(last.pre[i], last.pre[j])) =>
        /\ AlongNormal(last.pre[i], last.pre[j],
                       NormalOf(last.pre[i], last.pre[j])) > 0 =>
             /\ SameMotion(particles[i], last.pre[i])
             /\ SameMotion(particles[j], last.pre[j])
             /\ collisionEvents = << >>
        /\ AlongNormal(last.pre[i], last.pre[j],
                       NormalOf(last.pre[i], last.pre[j])) = 0 =>
             /\ particles[i].velocity = last.pre[i].velocity
             /\ particles[j].velocity = last.pre[j].velocity
             /\ collisionEvents = << >>
             /\ particles[i].position # last.pre[i].position
             /\ particles[j].position # last.pre[j].position
             /\ Near(Gap(particles[i], particles[j]), 2 * collisionRadius)

\* C23's case: the pass has run on a pair 0.3 apart that was moving apart
\* along its normal.
C23_Witness ==
  /\ last.op = "pass"
  /\ Len(last.pre) = 2
  /\ Touching(last.pre[1], last.pre[2])
  /\ AlongNormal(last.pre[1], last.pre[2],
                 NormalOf(last.pre[1], last.pre[2])) > 0


\* The array ps in the order f, a permutation of its indices.
Reordered(ps, f) == SeqOf([k \in 1..Len(ps) |-> ps[f[k]]], Len(ps))

NearMotion(a, b) ==
  /\ Near(a.position.x, b.position.x) /\ Near(a.position.y, b.position.y)
  /\ Near(a.position.z, b.position.z)
  /\ Near(a.velocity.x, b.velocity.x) /\ Near(a.velocity.y, b.velocity.y)
  /\ Near(a.velocity.z, b.velocity.z)

\* The pass on ps in the order f leaves each particle where qs has it.
SameOutcome(ps, f, qs) ==
  \A k \in 1..Len(ps) :
    NearMotion(checkParticleCollisions(Reordered(ps, f)).particles[k],
               qs[f[k]])

\* C24 as stated: the velocities and positions checkParticleCollisions leaves
\* are the same for every ordering of the particle array.
C24_OrderIndependent ==
  last.op = "pass" =>
    \A f \in Permutations(1..Len(last.pre)) :
      SameOutcome(last.pre, f, particles)

\* C24, amended: the velocities and positions checkParticleCollisions leaves
\* are the same for every ordering of the array when the array holds one pair
\* with no third particle near it; a particle that is in two pairs is moved by
\* the first before the second is looked at, so there the order counts.
C24_LonePairOrderIndependent ==
  last.op = "pass" =>
    \A i, j \in 1..Len(last.pre) :
      (i < j /\ OnlyPair(last.pre, i, j)) =>
        \A f \in Permutations(1..Len(last.pre)) :
          SameOutcome(last.pre, f, particles)

\* C24's case: the pass has resolved the one approaching pair of an array of
\* three, the third particle far from both.
C24_Witness ==
  /\ last.op = "pass"
  /\ Len(last.pre) = 3
  /\ \E i, j \in 1..3 :
       /\ i < j
       /\ OnlyPair(last.pre, i, j)
       /\ ApproachingPair(last.pre[i], last.pre[j])
       /\ particles[i].velocity # last.pre[i].velocity


\* C25: for a single resolved pair the impulses are equal and opposite: the
\* sum of the two velocities is unchanged, the relative velocity along the
\* normal becomes -0.8 times what it was, and after the positional separation
\* the two particles are 2 x 0.4 apart.
C25_EqualOpposite ==
  last.op = "pass" =>
    \A i, j \in 1..Len(last.pre) :
      (/\ i < j
       /\ OnlyPair(last.pre, i, j)
       /\ Touching(last.pre[i], last.pre[j])
       /\ AlongNormal(last.pre[i], last.pre[j],
                      NormalOf(last.pre[i], last.pre[j])) <= 0) =>
        /\ \A axis \in { "x", "y", "z" } :
             particles[i].velocity[axis] + particles[j].velocity[axis]
               = last.pre[i].velocity[axis] + last.pre[j].velocity[axis]
        /\ Near(AlongNormal(particles[i], particles[j],
                            NormalOf(last.pre[i], last.pre[j])),
                Mul(-restitution,
                    AlongNormal(last.pre[i], last.pre[j],
                                NormalOf(last.pre[i], last.pre[j]))))
        /\ Near(Gap(particles[i], particles[j]), 2 * 4000)

\* C25's case: the pass has resolved a pair that was closing in on a diagonal
\* normal, changing both velocities.
C25_Witness ==
  /\ last.op = "pass"
  /\ Len(last.pre) = 2
  /\ ApproachingPair(last.pre[1], last.pre[2])
  /\ NormalOf(last.pre[1], last.pre[2]).x # 0
  /\ NormalOf(last.pre[1], last.pre[2]).y # 0
  /\ particles[1].velocity # last.pre[1].velocity
  /\ particles[2].velocity # last.pre[2].velocity


\* The places in the event list of the events of the pair (a, b).
EventsOf(events, a, b) ==
  { k \in 1..Len(events) :
      events[k].particle1 = a /\ events[k].particle2 = b }

\* C26: a call emits exactly one CollisionEvent for each resolved pair whose
\* approach speed along the normal is above 0.5 and none for any other pair,
\* and the events a tick returns are those of that tick: the list starts
\* empty at every call.
C26_OneEventPerImpact ==
  last.op \in { "pass", "update" } =>
    /\ \A k \in 1..Len(collisionEvents) :
         collisionEvents[k].particle2 # "boundary" =>
           /\ collisionEvents[k].impact > 5000
           /\ \E i, j \in 1..Len(last.pre) :
                /\ i < j
                /\ collisionEvents[k].particle1 = last.pre[i].id
                /\ collisionEvents[k].particle2 = last.pre[j].id
    /\ \A i, j \in 1..Len(last.pre) :
         i < j =>
           /\ Cardinality(EventsOf(collisionEvents, last.pre[i].id,
                                   last.pre[j].id)) <= 1
           /\ EventsOf(collisionEvents, last.pre[j].id, last.pre[i].id) = {}
           /\ OnlyPair(last.pre, i, j) =>
                IF /\ Touching(last.pre[i], last.pre[j])
                   /\ AlongNormal(last.pre[i], last.pre[j],
                                  NormalOf(last.pre[i], last.pre[j])) < -5000
                THEN \E k \in 1..Len(collisionEvents) :
                       /\ EventsOf(collisionEvents, last.pre[i].id,
                                   last.pre[j].id) = { k }
                       /\ collisionEvents[k].impact
                            = -AlongNormal(last.pre[i], last.pre[j],
                                           NormalOf(last.pre[i], last.pre[j]))
                ELSE EventsOf(collisionEvents, last.pre[i].id,
                              last.pre[j].id) = {}

\* C26's case: a second tick has returned the one event of the pair it
\* resolved, the first tick having run on the same pair.
C26_Witness ==
  /\ last.op = "update"
  /\ ticks = 2
  /\ Len(last.pre) = 2
  /\ Len(collisionEvents) = 1
  /\ collisionEvents[1].particle1 = last.pre[1].id
  /\ collisionEvents[1].particle2 = last.pre[2].id
  /\ collisionEvents[1].impact > 5000


\* ------------------- the aggregator's belief map, submissions and removals

\* universe.updateGlobalPosterior(id, b), the record of the call keeping
\* every call made so far.
SubmitLogged ==
  /\ ticks < MaxSubmits
  /\ \E id \in AggIds, b \in AggBeliefs :
       /\ ticks >= FreeSubmits => last.args = << id, b >>
       /\ universe' = updateGlobalPosterior(universe, id, b)
       /\ last' = [NoCall EXCEPT
                     !.op = "submit", !.args = << id, b >>,
                     !.old = << universe >>,
                     !.log = Append(last.log,
                               [op |-> "submit", id |-> id, belief |-> b])]
  /\ ticks' = ticks + 1
  /\ UNCHANGED << particles, collisionEvents, returned, twin, observations,
                  meta, timeStep, learningEnabled, animateLearning, timers,
                  published, writes, nextId, presets >>

\* universe.removeParticle(id), among the first calls of a run.
RemoveParticle ==
  /\ ticks < FreeSubmits
  /\ \E id \in AggIds :
       /\ universe' = removeParticle(universe, id)
       /\ last' = [NoCall EXCEPT
                     !.op = "remove", !.args = << id >>,
                     !.old = << universe >>,
                     !.log = Append(last.log,
                               [op |-> "remove", id |-> id, belief |-> Null])]
  /\ ticks' = ticks + 1
  /\ UNCHANGED << particles, collisionEvents, returned, twin, observations,
                  meta, timeStep, learningEnabled, animateLearning, timers,
                  published, writes, nextId, presets >>

RegistryNext == SubmitLogged \/ RemoveParticle

RegistrySpec == Init /\ [][RegistryNext]_vars

\* The place in the log of the latest call that named this id, 0 if none.
LatestCall(log, id) ==
  IF \E k \in 1..Len(log) : log[k].id = id
  THEN CHOOSE k \in 1..Len(log) :
         /\ log[k].id = id
         /\ \A l \in (k + 1)..Len(log) : log[l].id # id
  ELSE 0

\* The ids submitted and not removed since.
LiveIds(log) ==
  { id \in AggIds :
      /\ LatestCall(log, id) # 0
      /\ log[LatestCall(log, id)].op = "submit" }

\* C27: the aggregator keeps exactly one belief record per particle id
\* submitted and not removed; right after an updateGlobalPosterior call each
\* constant's sample list has one entry per such id, holding the value that
\* id submitted last.
C27_OneBeliefPerId ==
  /\ Len(universe.particleBeliefs) = Cardinality(LiveIds(last.log))
  /\ { universe.particleBeliefs[k].id : k \in 1..Len(universe.particleBeliefs) }
       = LiveIds(last.log)
  /\ last.op = "submit" =>
       /\ Len(universe.globalPosterior.gravity.samples)
            = Cardinality(LiveIds(last.log))
       /\ Len(universe.globalPosterior.mass.samples)
            = Cardinality(LiveIds(last.log))
       /\ Len(universe.globalPosterior.friction.samples)
            = Cardinality(LiveIds(last.log))
       /\ \E f \in [1..Cardinality(LiveIds(last.log)) -> LiveIds(last.log)] :
            /\ \A id \in LiveIds(last.log) :
                 \E k \in 1..Cardinality(LiveIds(last.log)) : f[k] = id
            /\ \A k \in 1..Cardinality(LiveIds(last.log)) :
                 /\ universe.globalPosterior.gravity.samples[k]
                      = last.log[LatestCall(last.log, f[k])].belief.g
                 /\ universe.globalPosterior.mass.samples[k]
                      = last.log[LatestCall(last.log, f[k])].belief.m
                 /\ universe.globalPosterior.friction.samples[k]
                      = last.log[LatestCall(last.log, f[k])].belief.mu

\* C27's case: an id was submitted and then removed, after which another id
\* was submitted: the samples hold the second id's values alone.
C27_Witness ==
  /\ last.op = "submit"
  /\ Cardinality(LiveIds(last.log)) = 1
  /\ \E k, l \in 1..Len(last.log) :
       /\ l < k
       /\ last.log[k].op = "remove"
       /\ last.log[l].op = "submit"
       /\ last.log[l].id = last.log[k].id
       /\ last.log[l].id # last.args[1]

\* C28: once Clear has been issued no particle is created by work scheduled
\* before it: a timeout callback that creates a particle was set by a preset
\* selection that no Clear has followed.
C28_ClearHolds ==
  last.op = "timer" => ~last.args[1].cleared


\* C29: at the end of every tick every particle's position lies within the
\* box on all three axes, -5 <= x, y, z <= 5, whatever its spawn position and
\* whatever the collision pass did.
C29_InsideBox ==
  last.op = "update" =>
    \A k \in 1..Len(particles) :
      \A axis \in { "x", "y", "z" } :
        /\ particles[k].position[axis] >= -50000
        /\ particles[k].position[axis] <= 50000

\* C29's case: the collision pass of a tick has pushed a particle that was
\* inside the box out of it on z, and the tick has ended with it on the wall.
C29_Witness ==
  /\ last.op = "update"
  /\ \E k \in 1..Len(last.pre) :
       /\ last.pre[k].position.z <= 50000
       /\ checkParticleCollisions(last.pre).particles[k].position.z > 50000
       /\ particles[k].position.z = 50000

\* C30: whatever the buffered observations are, the equation
\* discoverGravityEquation reports has rSquared = 0 and confidence = 0: its
\* residual sum of squares is taken against the same mean as its total sum.
C30_NoFit ==
  Len(observations) >= 10 =>
    /\ discoverGravityEquation(observations).rSquared = 0
    /\ discoverGravityEquation(observations).parameters[1].confidence = 0

\* C30's case: the buffer holds 100 observations whose accelerations differ,
\* and discoverGravityEquation reports a gravity other than 0.
C30_Witness ==
  /\ Len(observations) = 100
  /\ observations[1].acceleration.y # observations[2].acceleration.y
  /\ discoverGravityEquation(observations).parameters[1].value > 0


====
